---- MODULE Spec2Model ----
(***************************************************************************)
(* Model of the ingestion-to-retrieval pipeline of AI_Data_Ingestion:      *)
(* query intent resolution and retrieval-augmented answering               *)
(* (backend/services/rag.py), the vector index                             *)
(* (backend/services/vector_store.py) and the chunker                      *)
(* (backend/services/chunking.py).                                         *)
(*                                                                         *)
(* Python values are tagged records [t |-> type, v |-> value]; a Python    *)
(* str that is inspected character by character (queries, model replies)  *)
(* is a sequence of one-character strings, a Thai character being written *)
(* by its code point ("u0E15").                                            *)
(***************************************************************************)
EXTENDS Integers, Sequences, FiniteSets, TLC

VARIABLES
    index,      \* the Chroma collection "documents": a set of stored entries
    pc,         \* position of the answer_question coroutine
    req,        \* arguments of the current answer_question call
    intent,     \* local variable intent of answer_question
    events,     \* calls the current answer_question call has made, in order
    docs,       \* local variable docs of answer_question
    result,     \* what answer_question returned or raised
    storeOp,    \* the last direct call on the vector store, with its outcome
    given,      \* per chunk id, the chunk index_chunks stored most recently
    procs,      \* concurrent ingestion processes
    ruleIn,     \* argument of _rule_based_intent
    ruleOut,    \* its return value
    work,       \* what the ingestion-side step under analysis works on
    ret         \* what that step has returned

vars == <<index, pc, req, intent, events, docs, result, storeOp, given, procs,
          ruleIn, ruleOut, work, ret>>

-----------------------------------------------------------------------------
(* Bounds *)

\* longest query, counted in fragments of QueryFragments / IntentFragments
MaxFrags == 2
\* most blocks of one kind (text, table, image) in a document bundle
MaxBlocks == 2
\* most pages of a PDF
MaxPages == 2
\* most rows of a table given to _table_to_text
MaxRows == 12
\* most cells of a header or of a row given to clean_table_blocks
MaxCols == 2
\* most times the cleaning of a document is run
MaxPasses == 2

-----------------------------------------------------------------------------
(* Python values *)

PyNone == [t |-> "NoneType", v |-> "None"]
PyStr(s) == [t |-> "str", v |-> s]
PyInt(n) == [t |-> "int", v |-> n]
PyList(s) == [t |-> "list", v |-> s]

\* bool(x) for the value kinds above
Truthy(x) ==
    CASE x.t = "NoneType" -> FALSE
      [] x.t = "str" -> x.v # ""
      [] x.t = "int" -> x.v # 0
      [] x.t = "list" -> x.v # <<>>

RECURSIVE JoinStr(_, _)
\* sep.join(strs)
JoinStr(sep, strs) ==
    IF strs = <<>> THEN ""
    ELSE IF Len(strs) = 1 THEN strs[1]
    ELSE strs[1] \o sep \o JoinStr(sep, Tail(strs))

RECURSIVE PyRepr(_)
\* repr(x): how str() shows x inside a list
PyRepr(x) ==
    CASE x.t = "NoneType" -> "None"
      [] x.t = "str" -> "'" \o x.v \o "'"
      [] x.t = "int" -> ToString(x.v)
      [] x.t = "list" ->
            "[" \o JoinStr(", ", [i \in 1..Len(x.v) |-> PyRepr(x.v[i])]) \o "]"

\* str(x)
PyToStr(x) == IF x.t = "str" THEN x.v ELSE PyRepr(x)

Range(f) == {f[i] : i \in DOMAIN f}

RECURSIVE SeqsUpTo(_, _)
\* all sequences over S of length at most n
SeqsUpTo(S, n) ==
    IF n = 0 THEN {<<>>}
    ELSE LET shorter == SeqsUpTo(S, n - 1)
         IN  shorter \cup {Append(s, x) : s \in shorter, x \in S}

RECURSIVE Flatten(_)
\* concatenation of a sequence of sequences
Flatten(ss) == IF ss = <<>> THEN <<>> ELSE Head(ss) \o Flatten(Tail(ss))

-----------------------------------------------------------------------------
(* str methods on character sequences *)

UPPER == <<"A", "B", "C", "D", "E", "F", "G", "H", "I", "J", "K", "L", "M",
           "N", "O", "P", "Q", "R", "S", "T", "U", "V", "W", "X", "Y", "Z">>
LOWER == <<"a", "b", "c", "d", "e", "f", "g", "h", "i", "j", "k", "l", "m",
           "n", "o", "p", "q", "r", "s", "t", "u", "v", "w", "x", "y", "z">>

WHITESPACE == {" ", "\t", "\n", "\r", "\f"}

LowerChar(c) ==
    IF \E i \in 1..26 : UPPER[i] = c
    THEN LOWER[CHOOSE i \in 1..26 : UPPER[i] = c]
    ELSE c

\* s.lower()
Lower(s) == [i \in 1..Len(s) |-> LowerChar(s[i])]

RECURSIVE LStrip(_)
LStrip(s) ==
    IF s # <<>> /\ Head(s) \in WHITESPACE THEN LStrip(Tail(s)) ELSE s

RECURSIVE RStrip(_)
RStrip(s) ==
    IF s # <<>> /\ s[Len(s)] \in WHITESPACE
    THEN RStrip(SubSeq(s, 1, Len(s) - 1))
    ELSE s

\* s.strip()
Strip(s) == RStrip(LStrip(s))

\* kw in s
Contains(s, kw) ==
    \E i \in 1..(Len(s) - Len(kw) + 1) : SubSeq(s, i, i + Len(kw) - 1) = kw

-----------------------------------------------------------------------------
(* rag.py: rule-based intent *)

\* the intent None of _rule_based_intent
None == "None"

table_keywords ==
    { <<"u0E15", "u0E32", "u0E23", "u0E32", "u0E07">>,
      <<"t", "a", "b", "l", "e">>,
      <<"u0E23", "u0E32", "u0E22", "u0E01", "u0E32", "u0E23">>,
      <<"u0E23", "u0E32", "u0E22", "u0E0A", "u0E37", "u0E48", "u0E2D">>,
      <<"u0E2A", "u0E23", "u0E38", "u0E1B", "u0E02", "u0E49", "u0E2D", "u0E21", "u0E39", "u0E25">>,
      <<"u0E2A", "u0E23", "u0E38", "u0E1B", "u0E1C", "u0E25">>,
      <<"u0E2A", "u0E16", "u0E34", "u0E15", "u0E34">>,
      <<"u0E2A", "u0E23", "u0E38", "u0E1B", "u0E04", "u0E30", "u0E41", "u0E19", "u0E19">>,
      <<"u0E41", "u0E16", "u0E27", "u0E17", "u0E35", "u0E48">>,
      <<"u0E04", "u0E2D", "u0E25", "u0E31", "u0E21", "u0E19", "u0E4C">>,
      <<"c", "o", "l", "u", "m", "n">>,
      <<"r", "o", "w">>,
      <<"u0E0A", "u0E35", "u0E17">>,
      <<"s", "h", "e", "e", "t">> }

image_keywords ==
    { <<"u0E23", "u0E39", "u0E1B">>,
      <<"u0E23", "u0E39", "u0E1B", "u0E20", "u0E32", "u0E1E">>,
      <<"i", "m", "a", "g", "e">>,
      <<"l", "o", "g", "o">>,
      <<"u0E42", "u0E25", "u0E42", "u0E01", "u0E49">>,
      <<"u0E01", "u0E23", "u0E32", "u0E1F">>,
      <<"g", "r", "a", "p", "h">>,
      <<"c", "h", "a", "r", "t">>,
      <<"u0E41", "u0E1C", "u0E19", "u0E20", "u0E32", "u0E1E">>,
      <<"d", "i", "a", "g", "r", "a", "m">>,
      <<"u0E41", "u0E1C", "u0E19", "u0E20", "u0E39", "u0E21", "u0E34">> }

\* a variant that strips nothing and sends image-only queries to "text"
RuleBasedIntentImageAsText(query) ==
    LET q == Lower(query)
        is_table == \E kw \in table_keywords : Contains(q, kw)
        is_image == \E kw \in image_keywords : Contains(q, kw)
    IN  IF q = <<>> THEN None
        ELSE IF is_table /\ ~is_image THEN "table"
        ELSE IF is_table /\ is_image THEN "both"
        ELSE "text"

\* _rule_based_intent(query)
RuleBasedIntent(query) ==
    LET q == Strip(Lower(query))
        is_table == \E kw \in table_keywords : Contains(q, kw)
        is_image == \E kw \in image_keywords : Contains(q, kw)
    IN  IF q = <<>> THEN None
        ELSE IF is_table /\ ~is_image THEN "table"
        ELSE IF is_image /\ ~is_table THEN "both"
        ELSE IF is_table /\ is_image THEN "both"
        ELSE "text"

-----------------------------------------------------------------------------
(* models.py, loader.py: document bundles *)

\* block ids as the extractors assign them: txt_0001, tbl_0001, img_0001
BlockId(prefix, i) ==
    LET \* f"{i:04d}" for the small counters of the model
        Pad4(n) == IF n < 10 THEN "000" \o ToString(n) ELSE "00" \o ToString(n)
    IN  prefix \o "_" \o Pad4(i)

\* doc ids come from the upload form or the file stem: any non-blank string
DocIds == {"doc_001", "doc_002", "doc_001::text"}

\* doc_type of a loaded item: the JSON's value, or None when the JSON has none
DocTypes == {PyStr("bank_statement"), PyNone}

\* a document may be ingested again after its PDF was replaced
Revisions == {1, 2}

\* content of the i-th text block of the sample documents, per revision
TextContents ==
    << <<"opening balance 5000", "", "closing balance 4000">>,
       <<"opening balance 7000", "", "closing balance 6500">> >>

\* caption of the i-th image of the sample documents
Captions == <<PyStr("company logo"), PyNone, PyStr("")>>

Cycle(seq, i) == seq[((i - 1) % Len(seq)) + 1]

\* TextItem(**item)
TextItem(doc_id, doc_type, rev, i) ==
    [id |-> BlockId("txt", i), doc_id |-> doc_id, page |-> i,
     section |-> IF rev = 1 THEN PyNone ELSE PyStr("summary"),
     content |-> Cycle(TextContents[rev], i),
     bbox |-> PyList(<<PyInt(0), PyInt(0), PyInt(10), PyInt(i)>>),
     category |-> PyNone, doc_type |-> doc_type]

\* TableItem(**item)
TableItem(doc_id, doc_type, i) ==
    [id |-> BlockId("tbl", i), doc_id |-> doc_id, page |-> i,
     name |-> IF i = 1 THEN PyStr("transaction_table") ELSE PyNone,
     section |-> PyNone, category |-> PyNone,
     columns |-> <<"date", "amount">>,
     rows |-> [r \in 1..i |-> <<"2025-11-0" \o ToString(r), "-1000.00">>],
     bbox |-> PyNone, doc_type |-> doc_type]

\* ImageItem(**item)
ImageItem(doc_id, doc_type, i) ==
    [id |-> BlockId("img", i), doc_id |-> doc_id, page |-> i,
     file_path |-> "ingested/" \o doc_id \o "/images/img_p" \o ToString(i) \o "_1.png",
     caption |-> Cycle(Captions, i), section |-> PyNone, category |-> PyNone,
     bbox |-> PyNone, doc_type |-> doc_type]

\* load_document_bundle(base_dir, doc_id) for a folder holding nt text blocks,
\* nb tables and ni images of that document
DocumentBundle(doc_id, doc_type, rev, nt, nb, ni) ==
    [metadata |-> [doc_id |-> doc_id, doc_type |-> doc_type],
     texts |-> [i \in 1..nt |-> TextItem(doc_id, doc_type, rev, i)],
     tables |-> [i \in 1..nb |-> TableItem(doc_id, doc_type, i)],
     images |-> [i \in 1..ni |-> ImageItem(doc_id, doc_type, i)]]

Bundles(doc_id, revs) ==
    {DocumentBundle(doc_id, dt, rev, nt, nb, ni) :
        dt \in DocTypes, rev \in revs, nt \in 0..MaxBlocks, nb \in 0..1, ni \in 0..1}

-----------------------------------------------------------------------------
(* chunking.py *)

TABLE_MAX_ROWS == 10

\* a merge in which the left operand wins
DictMergeLeftWins(a, b) == a @@ b

\* a | b for dicts: the right operand wins
DictMerge(a, b) == b @@ a

\* pydantic validation of Chunk(...): doc_type and content must be str
ChunkValid(doc_type, content) == doc_type.t = "str" /\ content.t = "str"

\* the id without the doc_id prefix
ChunkIdNoDoc(doc_id, source, block_id) == source \o "::" \o block_id

\* the id without the source kind
ChunkIdNoSource(doc_id, source, block_id) == doc_id \o "::" \o block_id

\* f"{item.doc_id}::{source}::{item.id}"
ChunkId(doc_id, source, block_id) ==
    doc_id \o "::" \o source \o "::" \o block_id

\* a variant that leaves the optional field page at its default
ChunkWithoutPage(doc_id, doc_type, source, block_id, page, content, metadata) ==
    [id |-> ChunkId(doc_id, source, block_id), doc_id |-> doc_id,
     doc_type |-> doc_type.v, source |-> source, page |-> PyNone,
     content |-> content.v, metadata |-> metadata]

\* Chunk(id=..., doc_id=..., doc_type=..., source=..., page=..., content=..., metadata=...)
Chunk(doc_id, doc_type, source, block_id, page, content, metadata) ==
    [id |-> ChunkId(doc_id, source, block_id), doc_id |-> doc_id,
     doc_type |-> doc_type.v, source |-> source, page |-> PyInt(page),
     content |-> content.v, metadata |-> metadata]

\* a variant that renders every row
TableToTextAllRows(table) ==
    LET header == "Table " \o PyToStr(table.name) \o " (page "
                  \o ToString(table.page) \o ")"
        col_line == JoinStr(" | ", table.columns)
        row_lines == [r \in 1..Len(table.rows) |-> JoinStr(" | ", table.rows[r])]
        body == JoinStr("\n", row_lines)
    IN  header \o "\nColumns: " \o col_line \o "\nRows:\n" \o body

\* _table_to_text(table)
TableToText(table) ==
    LET header == "Table " \o PyToStr(table.name) \o " (page "
                  \o ToString(table.page) \o ")"
        col_line == JoinStr(" | ", table.columns)
        max_rows == IF Len(table.rows) < TABLE_MAX_ROWS
                    THEN Len(table.rows) ELSE TABLE_MAX_ROWS
        row_lines == [r \in 1..max_rows |-> JoinStr(" | ", table.rows[r])]
        body == JoinStr("\n", row_lines)
    IN  header \o "\nColumns: " \o col_line \o "\nRows:\n" \o body

\* a chunker's outcome over the items it keeps: the chunk list, or the
\* ValidationError of the first Chunk(...) that pydantic rejects
ChunkerResult(valid, made) ==
    IF \E i \in DOMAIN valid : ~valid[i]
    THEN [raised |-> TRUE, error |-> "ValidationError", chunks |-> <<>>]
    ELSE [raised |-> FALSE, error |-> "", chunks |-> made]

\* text_items_to_chunks(bundle)
TextItemsToChunks(bundle) ==
    LET keep(item) == item.content # ""
        items == SelectSeq(bundle.texts, keep)
        ok(item) == ChunkValid(item.doc_type, PyStr(item.content))
        make(item) ==
            Chunk(item.doc_id, item.doc_type, "text", item.id, item.page,
                  PyStr(item.content),
                  [block_id |-> PyStr(item.id), section |-> item.section,
                   bbox |-> item.bbox, page |-> PyInt(item.page),
                   doc_type |-> item.doc_type])
    IN  ChunkerResult([i \in 1..Len(items) |-> ok(items[i])],
                      [i \in 1..Len(items) |-> make(items[i])])

\* table_items_to_chunks(bundle)
TableItemsToChunks(bundle) ==
    LET items == bundle.tables
        ok(item) == ChunkValid(item.doc_type, PyStr(TableToText(item)))
        make(item) ==
            Chunk(item.doc_id, item.doc_type, "table", item.id, item.page,
                  PyStr(TableToText(item)),
                  [table_id |-> PyStr(item.id), name |-> item.name,
                   columns |-> PyList([i \in 1..Len(item.columns) |-> PyStr(item.columns[i])]),
                   bbox |-> item.bbox, page |-> PyInt(item.page),
                   doc_type |-> item.doc_type])
    IN  ChunkerResult([i \in 1..Len(items) |-> ok(items[i])],
                      [i \in 1..Len(items) |-> make(items[i])])

\* image_items_to_chunks(bundle)
ImageItemsToChunks(bundle) ==
    LET keep(item) == Truthy(item.caption)
        items == SelectSeq(bundle.images, keep)
        ok(item) == ChunkValid(item.doc_type, item.caption)
        make(item) ==
            Chunk(item.doc_id, item.doc_type, "image", item.id, item.page,
                  item.caption,
                  [image_id |-> PyStr(item.id), file_path |-> PyStr(item.file_path),
                   bbox |-> item.bbox, page |-> PyInt(item.page),
                   doc_type |-> item.doc_type])
    IN  ChunkerResult([i \in 1..Len(items) |-> ok(items[i])],
                      [i \in 1..Len(items) |-> make(items[i])])

\* ingest_doc.main, per document: text_chunks + table_chunks + image_chunks
DocChunks(bundle) ==
    LET t == TextItemsToChunks(bundle)
        b == TableItemsToChunks(bundle)
        i == ImageItemsToChunks(bundle)
    IN  IF t.raised THEN t
        ELSE IF b.raised THEN b
        ELSE IF i.raised THEN i
        ELSE [raised |-> FALSE, error |-> "", chunks |-> t.chunks \o b.chunks \o i.chunks]

-----------------------------------------------------------------------------
(* vector_store.py *)

\* the collection before anything was indexed
EmptyIndex == {}

\* how a call into the embedding backend can end: it answers, or it raises
\* (invalid, expired or disabled GOOGLE_API_KEY)
BackendOutcomes == {"ok", "GoogleGenerativeAIError"}

\* isinstance(v, (str, int, float, bool)) or v is None
IsScalar(v) == v.t \in {"str", "int", "float", "bool", "NoneType"}

\* _normalize_metadata(md)
NormalizeMetadata(md) ==
    [k \in DOMAIN md |-> IF IsScalar(md[k]) THEN md[k] ELSE PyStr(PyToStr(md[k]))]

\* one element of raw_metadatas
RawMetadata(c) ==
    DictMerge(c.metadata,
              [doc_id |-> PyStr(c.doc_id), doc_type |-> PyStr(c.doc_type),
               source |-> PyStr(c.source), page |-> c.page,
               chunk_id |-> PyStr(c.id)])

\* what index_chunks hands to add_texts for one chunk: text, metadata and id
IndexEntry(c) ==
    [id |-> c.id, content |-> c.content,
     metadata |-> NormalizeMetadata(RawMetadata(c))]

\* an insert that keeps what is stored under the id
UpsertKeepOld(idx, e) == idx \cup {e}

\* the collection's upsert of one id
Upsert(idx, e) == {x \in idx : x.id # e.id} \cup {e}

RECURSIVE AddTexts(_, _)
\* vectordb.add_texts(texts, metadatas, ids): the ids are upserted in order
AddTexts(idx, entries) ==
    IF entries = <<>> THEN idx
    ELSE AddTexts(Upsert(idx, Head(entries)), Tail(entries))

\* a variant that wipes the collection when there is nothing to index
IndexChunksClearOnEmpty(idx, chunks, backend) ==
    [raised |-> FALSE, error |-> "", index |-> EmptyIndex]

\* a variant that first drops what the index holds of the chunks' documents
IndexChunksReplaceDocuments(idx, chunks, backend) ==
    IF chunks = <<>> THEN [raised |-> FALSE, error |-> "", index |-> idx]
    ELSE IF backend # "ok" THEN [raised |-> TRUE, error |-> backend, index |-> idx]
    ELSE [raised |-> FALSE, error |-> "",
          index |-> AddTexts({e \in idx : \A i \in 1..Len(chunks) :
                                             e.metadata["doc_id"] # PyStr(chunks[i].doc_id)},
                             [i \in 1..Len(chunks) |-> IndexEntry(chunks[i])])]

\* index_chunks(chunks), the embedding backend ending as `backend`
IndexChunks(idx, chunks, backend) ==
    IF chunks = <<>> THEN [raised |-> FALSE, error |-> "", index |-> idx]
    ELSE IF backend # "ok" THEN [raised |-> TRUE, error |-> backend, index |-> idx]
    ELSE [raised |-> FALSE, error |-> "",
          index |-> AddTexts(idx, [i \in 1..Len(chunks) |-> IndexEntry(chunks[i])])]

\* filter_dict = None
FilterNone == [op |-> "None"]

\* {field: {"$in": values}}
InCond(field, values) == [op |-> "$in", field |-> field, values |-> values]

\* {"$and": conditions}
AndFilter(conditions) == [op |-> "$and", conds |-> conditions]

\* a variant that keeps only the first condition
FilterDictFirstOnly(doc_ids, sources) ==
    IF Truthy(doc_ids) THEN InCond("doc_id", doc_ids.v)
    ELSE IF Truthy(sources) THEN InCond("source", sources.v)
    ELSE FilterNone

\* conditions and filter_dict of search_similar
FilterDict(doc_ids, sources) ==
    LET c1 == IF Truthy(doc_ids) THEN <<InCond("doc_id", doc_ids.v)>> ELSE <<>>
        c2 == IF Truthy(sources) THEN <<InCond("source", sources.v)>> ELSE <<>>
        conditions == c1 \o c2
    IN  IF Len(conditions) = 0 THEN FilterNone
        ELSE IF Len(conditions) = 1 THEN conditions[1]
        ELSE AndFilter(conditions)

\* one call of vectordb.similarity_search; filter FilterNone is the call
\* without a filter argument
SimilarityRequest(query, k, filter) == [query |-> query, k |-> k, filter |-> filter]

RECURSIVE Matches(_, _)
\* the collection's where-clause
Matches(e, f) ==
    CASE f.op = "None" -> TRUE
      [] f.op = "$in" ->
            /\ f.field \in DOMAIN e.metadata
            /\ e.metadata[f.field].t = "str"
            /\ \E i \in 1..Len(f.values) : f.values[i] = e.metadata[f.field].v
      [] f.op = "$and" -> \A i \in 1..Len(f.conds) : Matches(e, f.conds[i])

\* a stored entry as the langchain Document a search returns
Document(e) == [page_content |-> e.content, metadata |-> e.metadata]

\* vectordb.similarity_search: the k nearest matching entries; which entries
\* are nearest, and in which order, is the embedding model's business
SimilaritySearch(idx, request) ==
    LET M == {e \in idx : Matches(e, request.filter)}
        n == IF request.k < Cardinality(M) THEN request.k ELSE Cardinality(M)
    IN  {[i \in 1..n |-> Document(r[i])] :
            r \in {r \in [1..n -> M] : \A i, j \in 1..n : r[i] = r[j] => i = j}}

\* search_similar as first defined (lines 18-27): the embedding error becomes
\* an HTTPException. The second definition rebinds the name, so no caller
\* ever reaches this one.
SearchSimilarFirst(idx, query, top_k, backend) ==
    LET request == SimilarityRequest(query, top_k, FilterNone)
    IN  IF backend = "GoogleGenerativeAIError"
        THEN {[raised |-> TRUE, error |-> "HTTPException(500, Embedding error)",
               docs |-> <<>>, requests |-> <<request>>]}
        ELSE {[raised |-> FALSE, error |-> "", docs |-> d, requests |-> <<request>>] :
                d \in SimilaritySearch(idx, request)}

\* search_similar (lines 107-152), the binding every caller sees: the set of
\* its possible outcomes, the backend ending as `backend`
SearchSimilar(idx, query, k, doc_ids, sources, backend) ==
    LET request == SimilarityRequest(query, k, FilterDict(doc_ids, sources))
    IN  IF backend # "ok"
        THEN {[raised |-> TRUE, error |-> backend, docs |-> <<>>,
               requests |-> <<request>>]}
        ELSE {[raised |-> FALSE, error |-> "", docs |-> d, requests |-> <<request>>] :
                d \in SimilaritySearch(idx, request)}

\* ingest_doc.main: the chunks of all listed documents go to one index_chunks call
RECURSIVE AllChunks(_)
AllChunks(bundles) ==
    IF bundles = <<>> THEN <<>>
    ELSE DocChunks(Head(bundles)).chunks \o AllChunks(Tail(bundles))

-----------------------------------------------------------------------------
(* rag.py: answer_question *)

\* top_k defaults to 10
DEFAULT_TOP_K == 10

\* the fixed answer of the no-results return (line 233), in English:
\* "no sufficiently relevant information found in the document database"
NO_RESULTS_ANSWER == "(th) no sufficiently relevant information found in the document database"

ExplicitModes == {"text", "table", "both"}
Intents == {"text", "table", "both"}

\* an entry of the call log: what was called, and for a search its requests
Event(call) == [call |-> call, requests |-> <<>>, raised |-> FALSE]
SearchEvent(requests, raised) ==
    [call |-> "search_similar", requests |-> requests, raised |-> raised]

\* how a call of the generative model can end: the client cannot be built
\* (_get_llm raises), ainvoke raises, or ainvoke returns a response
LLMClientError == [kind |-> "client_error", content |-> PyNone]
LLMCallError == [kind |-> "call_error", content |-> PyNone]
LLMReply(content) == [kind |-> "reply", content |-> content]

\* resp.content of the intent classification: a word, padded or capitalised,
\* several words, nothing
IntentReplies ==
    { PyStr(<<"B", "o", "t", "h">>),
      PyStr(<<" ", "t", "a", "b", "l", "e", "\n">>),
      PyStr(<<"t", "e", "x", "t">>),
      PyStr(<<"t", "a", "b", "l", "e", " ", "b", "o", "t", "h">>),
      PyStr(<<>>),
      PyNone }

LLMIntentOutcomes ==
    {LLMClientError, LLMCallError} \cup {LLMReply(c) : c \in IntentReplies}

\* resp.content of the answer generation
AnswerReplies == {"the closing balance is 4000", NO_RESULTS_ANSWER}

LLMAnswerOutcomes ==
    {LLMClientError, LLMCallError} \cup {LLMReply(PyStr(a)) : a \in AnswerReplies}

\* a variant of the mode dispatch that runs the rule on every mode
IntentStepRuleAlways(mode, query) ==
    [intent |-> IF mode \in ExplicitModes THEN mode ELSE RuleBasedIntent(query),
     events |-> <<Event("_rule_based_intent")>>,
     escalate |-> mode \notin ExplicitModes /\ RuleBasedIntent(query) = None]

\* a variant of the mode dispatch that asks the model on every auto query
IntentStepAlwaysEscalate(mode, query) ==
    IF mode \in ExplicitModes
    THEN [intent |-> mode, events |-> <<>>, escalate |-> FALSE]
    ELSE [intent |-> RuleBasedIntent(query),
          events |-> <<Event("_rule_based_intent")>>, escalate |-> TRUE]

\* lines 196-207 up to the await: the intent the mode or the rule gives, and
\* whether classify_query_intent is awaited
IntentStep(mode, query) ==
    IF mode = "auto"
    THEN [intent |-> RuleBasedIntent(query),
          events |-> <<Event("_rule_based_intent")>>,
          escalate |-> RuleBasedIntent(query) = None]
    ELSE IF mode \in ExplicitModes
    THEN [intent |-> mode, events |-> <<>>, escalate |-> FALSE]
    ELSE [intent |-> RuleBasedIntent(query),
          events |-> <<Event("_rule_based_intent")>>,
          escalate |-> RuleBasedIntent(query) = None]

\* classify_query_intent(query), the model call ending as `outcome`
ClassifyQueryIntent(outcome) ==
    IF outcome.kind = "client_error"
    THEN [raised |-> TRUE, error |-> "LLMClientError", intent |-> None,
          events |-> <<Event("classify_query_intent")>>]
    ELSE IF outcome.kind = "call_error"
    THEN [raised |-> FALSE, error |-> "", intent |-> "text",
          events |-> <<Event("classify_query_intent"), Event("llm.ainvoke:intent")>>]
    ELSE LET content == IF Truthy(outcome.content) THEN outcome.content.v ELSE <<>>
             raw == Lower(Strip(content))
         IN  [raised |-> FALSE, error |-> "",
              intent |-> IF Contains(raw, <<"b", "o", "t", "h">>) THEN "both"
                         ELSE IF Contains(raw, <<"t", "a", "b", "l", "e">>) THEN "table"
                         ELSE "text",
              events |-> <<Event("classify_query_intent"), Event("llm.ainvoke:intent")>>]

\* a variant that lets image chunks in for intent both
SourceFilterWithImages(i) ==
    IF i = "text" THEN PyList(<<"text">>)
    ELSE IF i = "table" THEN PyList(<<"table">>)
    ELSE IF i = "both" THEN PyList(<<"text", "table", "image">>)
    ELSE PyNone

\* lines 209-219: intent -> source_filter
SourceFilter(i) ==
    IF i = "text" THEN PyList(<<"text">>)
    ELSE IF i = "table" THEN PyList(<<"table">>)
    ELSE IF i = "both" THEN PyList(<<"text", "table">>)
    ELSE PyNone

\* meta.get(k)
DictGet(md, k) == IF k \in DOMAIN md THEN md[k] ELSE PyNone

\* lines 277-287: one citation per retrieved document
Sources(ds) ==
    [i \in 1..Len(ds) |->
        [doc_id |-> DictGet(ds[i].metadata, "doc_id"),
         page |-> DictGet(ds[i].metadata, "page"),
         source |-> DictGet(ds[i].metadata, "source"),
         chunk_id |-> DictGet(ds[i].metadata, "chunk_id")]]

Returned(answer, sources, i, mode) ==
    [kind |-> "return", answer |-> answer, sources |-> sources, intent |-> i,
     mode |-> mode]

\* an exception leaving answer_question: what it is and which call raised it
Raised(error, at) == [kind |-> "raise", error |-> error, at |-> at]

NoResult == [kind |-> "none"]

\* a variant without the no-results return
AfterSearchNoShortCircuit(ds, i, mode) == [pc |-> "generate", result |-> NoResult]

\* lines 231-237: the no-results return
AfterSearch(ds, i, mode) ==
    IF ds = <<>>
    THEN [pc |-> "done", result |-> Returned(NO_RESULTS_ANSWER, <<>>, i, mode)]
    ELSE [pc |-> "generate", result |-> NoResult]

-----------------------------------------------------------------------------
(* Inputs *)

\* pieces the queries of the answering model are made of
QueryFragments ==
    { <<" ">>, <<"T", "a", "b", "l", "e">>, <<"c", "h", "a", "r", "t">>, <<"x">> }

Queries == {Flatten(fs) : fs \in SeqsUpTo(QueryFragments, MaxFrags)}

\* the query of the intent-resolution example: a table keyword, no image keyword
TableQuery ==
    <<"u0E02", "u0E2D", "u0E14", "u0E39", "u0E15", "u0E32", "u0E23", "u0E32",
      "u0E07", "u0E23", "u0E32", "u0E22", "u0E01", "u0E32", "u0E23", "u0E40",
      "u0E14", "u0E34", "u0E19", "u0E1A", "u0E31", "u0E0D", "u0E0A", "u0E35">>

\* pieces the arguments of _rule_based_intent are made of: white space,
\* keywords in either case and script, halves of a keyword, a neutral letter
IntentFragments ==
    { <<" ">>, <<"\n">>, <<"T", "A", "B", "L", "E">>, <<"t", "a">>, <<"b", "l", "e">>,
      <<"C", "h", "a", "r", "t">>, <<"x">>, TableQuery,
      <<"u0E01", "u0E23", "u0E32", "u0E1F">> }

IntentQueries == {Flatten(fs) : fs \in SeqsUpTo(IntentFragments, MaxFrags)}

\* "hybrid" stands for every mode answer_question does not know
Modes == {"auto", "text", "table", "both", "hybrid"}

DocIdFilters ==
    {PyNone, PyList(<<>>), PyList(<<"doc_001">>), PyList(<<"doc_002">>)}

SourceFilters ==
    {PyNone, PyList(<<>>), PyList(<<"text">>), PyList(<<"table">>),
     PyList(<<"text", "table">>), PyList(<<"image">>)}

TopKs == {1, DEFAULT_TOP_K}

\* the collection after ingest_doc indexed the listed documents, each with
\* one text block, one table and one captioned image
IndexOf(doc_ids) ==
    IndexChunks(EmptyIndex,
                AllChunks([i \in 1..Len(doc_ids) |->
                    DocumentBundle(doc_ids[i], PyStr("bank_statement"), 1, 1, 1, 1)]),
                "ok").index

Indexes == {EmptyIndex, IndexOf(<<"doc_001">>), IndexOf(<<"doc_001", "doc_002">>)}

NoReq == [query |-> <<>>, doc_ids |-> PyNone, top_k |-> DEFAULT_TOP_K, mode |-> "auto"]
NoOp == [name |-> "none"]
NoProcs == <<>>
NoWork == [step |-> "none"]
NoRet == [step |-> "none"]
Unset == "unset"

\* every variable at rest; each specification starts from this but for the
\* part it exercises
AtRest ==
    /\ index = EmptyIndex
    /\ pc = "idle" /\ req = NoReq /\ intent = None /\ events = <<>>
    /\ docs = <<>> /\ result = NoResult
    /\ storeOp = NoOp /\ given = <<>>
    /\ procs = NoProcs
    /\ ruleIn = <<>> /\ ruleOut = Unset /\ work = NoWork /\ ret = NoRet

-----------------------------------------------------------------------------
(* Answering a question: rag.answer_question as the request handler awaits it *)

ragVars == <<pc, req, intent, events, docs, result>>
otherThanRag == <<index, storeOp, given, procs, ruleIn, ruleOut, work, ret>>

\* answer_question(query, doc_ids, top_k, mode) is called. A call reads the
\* index and keeps nothing from one call to the next, so a behaviour follows
\* one call.
AnswerQuestion(query, doc_ids, top_k, mode) ==
    /\ pc = "idle"
    /\ req' = [query |-> query, doc_ids |-> doc_ids, top_k |-> top_k, mode |-> mode]
    /\ pc' = "intent"
    /\ intent' = None
    /\ events' = <<>>
    /\ docs' = <<>>
    /\ result' = NoResult
    /\ UNCHANGED otherThanRag

\* lines 196-207, up to the await of classify_query_intent
ResolveIntent ==
    /\ pc = "intent"
    /\ LET step == IntentStep(req.mode, req.query)
       IN  /\ intent' = step.intent
           /\ events' = events \o step.events
           /\ pc' = IF step.escalate THEN "classify" ELSE "retrieve"
    /\ UNCHANGED <<req, docs, result>>
    /\ UNCHANGED otherThanRag

\* await classify_query_intent(query)
AwaitClassify ==
    /\ pc = "classify"
    /\ \E outcome \in LLMIntentOutcomes :
        LET c == ClassifyQueryIntent(outcome)
        IN  /\ events' = events \o c.events
            /\ intent' = c.intent
            /\ IF c.raised
               THEN pc' = "raised" /\ result' = Raised(c.error, "classify_query_intent")
               ELSE pc' = "retrieve" /\ result' = result
    /\ UNCHANGED <<req, docs>>
    /\ UNCHANGED otherThanRag

\* lines 209-237: the source filter, the search and the no-results return
Retrieve ==
    /\ pc = "retrieve"
    /\ \E backend \in BackendOutcomes :
        \E out \in SearchSimilar(index, req.query, req.top_k, req.doc_ids,
                                 SourceFilter(intent), backend) :
            /\ events' = Append(events, SearchEvent(out.requests, out.raised))
            /\ IF out.raised
               THEN /\ pc' = "raised"
                    /\ result' = Raised(out.error, "search_similar")
                    /\ docs' = docs
               ELSE LET next == AfterSearch(out.docs, intent, req.mode)
                    IN  /\ pc' = next.pc
                        /\ result' = next.result
                        /\ docs' = out.docs
    /\ UNCHANGED <<req, intent>>
    /\ UNCHANGED otherThanRag

\* a variant that answers with the no-results return when the model fails
GenerateSubstituteAnswer ==
    /\ pc = "generate"
    /\ \E outcome \in LLMAnswerOutcomes :
        /\ ret' = [step |-> "generate", outcome |-> outcome.kind]
        /\ events' = IF outcome.kind = "client_error" THEN events
                     ELSE Append(events, Event("llm.ainvoke:answer"))
        /\ pc' = "done"
        /\ result' = IF outcome.kind = "reply"
                     THEN Returned(outcome.content.v, Sources(docs), intent, req.mode)
                     ELSE Returned(NO_RESULTS_ANSWER, <<>>, intent, req.mode)
    /\ UNCHANGED <<req, intent, docs>>
    /\ UNCHANGED <<index, storeOp, given, procs, ruleIn, ruleOut, work>>

\* lines 242-294: the generation call and the citations; ret keeps how the
\* call of the model ended
Generate ==
    /\ pc = "generate"
    /\ \E outcome \in LLMAnswerOutcomes :
        /\ ret' = [step |-> "generate", outcome |-> outcome.kind]
        /\ CASE outcome.kind = "client_error" ->
                /\ events' = events
                /\ pc' = "raised"
                /\ result' = Raised("LLMClientError", "generate")
          [] outcome.kind = "call_error" ->
                /\ events' = Append(events, Event("llm.ainvoke:answer"))
                /\ pc' = "raised"
                /\ result' = Raised("LLMCallError", "generate")
          [] outcome.kind = "reply" ->
                /\ events' = Append(events, Event("llm.ainvoke:answer"))
                /\ pc' = "done"
                /\ result' = Returned(outcome.content.v, Sources(docs), intent, req.mode)
    /\ UNCHANGED <<req, intent, docs>>
    /\ UNCHANGED <<index, storeOp, given, procs, ruleIn, ruleOut, work>>

InitRag ==
    \E idx \in Indexes :
        /\ index = idx
        /\ pc = "idle" /\ req = NoReq /\ intent = None /\ events = <<>>
        /\ docs = <<>> /\ result = NoResult
        /\ storeOp = NoOp /\ given = <<>>
        /\ procs = NoProcs
        /\ ruleIn = <<>> /\ ruleOut = Unset /\ work = NoWork /\ ret = NoRet

NextRag ==
    \/ \E query \in Queries, doc_ids \in DocIdFilters, top_k \in TopKs, mode \in Modes :
          AnswerQuestion(query, doc_ids, top_k, mode)
    \/ ResolveIntent
    \/ AwaitClassify
    \/ Retrieve
    \/ Generate

SpecRag == InitRag /\ [][NextRag]_vars

-----------------------------------------------------------------------------
(* _rule_based_intent on its own *)

ApplyRuleBasedIntent ==
    /\ ruleOut = Unset
    /\ ruleOut' = RuleBasedIntent(ruleIn)
    /\ UNCHANGED <<index, pc, req, intent, events, docs, result, storeOp, given,
                   procs, ruleIn, work, ret>>

InitIntent ==
    \E query \in IntentQueries :
        /\ ruleIn = query /\ ruleOut = Unset /\ work = NoWork /\ ret = NoRet
        /\ index = EmptyIndex
        /\ pc = "idle" /\ req = NoReq /\ intent = None /\ events = <<>>
        /\ docs = <<>> /\ result = NoResult
        /\ storeOp = NoOp /\ given = <<>>
        /\ procs = NoProcs

NextIntent == ApplyRuleBasedIntent

SpecIntent == InitIntent /\ [][NextIntent]_vars

-----------------------------------------------------------------------------
(* search_similar called on its own, as ingest_doc.main does after indexing *)

SearchCall(query, k, doc_ids, sources, backend) ==
    /\ storeOp = NoOp
    /\ \E out \in SearchSimilar(index, query, k, doc_ids, sources, backend) :
        storeOp' = [name |-> "search_similar", doc_ids |-> doc_ids,
                    sources |-> sources, k |-> k, raised |-> out.raised,
                    requests |-> out.requests, docs |-> out.docs]
    /\ UNCHANGED <<index, given, procs, ruleIn, ruleOut, work, ret>>
    /\ UNCHANGED ragVars

InitSearch ==
    \E idx \in Indexes :
        /\ index = idx
        /\ pc = "idle" /\ req = NoReq /\ intent = None /\ events = <<>>
        /\ docs = <<>> /\ result = NoResult
        /\ storeOp = NoOp /\ given = <<>>
        /\ procs = NoProcs
        /\ ruleIn = <<>> /\ ruleOut = Unset /\ work = NoWork /\ ret = NoRet

NextSearch ==
    \E query \in {<<"x">>}, k \in {1, 2}, doc_ids \in DocIdFilters,
       sources \in SourceFilters, backend \in BackendOutcomes :
        SearchCall(query, k, doc_ids, sources, backend)

SpecSearch == InitSearch /\ [][NextSearch]_vars

-----------------------------------------------------------------------------
(* Indexing: ingest_doc.main run again and again over the ingested folders *)

\* the documents of ingest_doc.DOCS
DOCS == <<"doc_001", "doc_002">>

\* the folders a run of ingest_doc can find: one document with its image, with
\* or without its table and with any number of text blocks, or both documents
\* with all their blocks; in any revision
DocLists ==
    {<<DocumentBundle(DOCS[i], dt, rev, nt, nb, 1)>> :
        i \in 1..Len(DOCS), dt \in DocTypes, rev \in Revisions,
        nt \in 0..MaxBlocks, nb \in 0..1}
    \cup {<<DocumentBundle(DOCS[1], PyStr("bank_statement"), r1, MaxBlocks, 1, 1),
            DocumentBundle(DOCS[2], PyStr("bank_statement"), r2, MaxBlocks, 1, 1)>> :
            r1 \in Revisions, r2 \in Revisions}

\* the chunk of a list that a chunk id stands for after the list was stored
LastWithId(chunks, id) ==
    chunks[CHOOSE i \in 1..Len(chunks) :
              /\ chunks[i].id = id
              /\ \A j \in (i + 1)..Len(chunks) : chunks[j].id # id]

ChunkIds(chunks) == {chunks[i].id : i \in 1..Len(chunks)}

\* the call stored a chunk under an id that held a different entry
Replaces(idx, chunks) ==
    \E i \in 1..Len(chunks) :
        \E e \in idx : e.id = chunks[i].id /\ e # IndexEntry(chunks[i])

\* ingest_doc.main lines 17-45: load and chunk every listed document, then
\* one index_chunks call with all the chunks
IngestDocs(bundles, backend) ==
    /\ pc = "idle"
    /\ LET failed == \E i \in 1..Len(bundles) : DocChunks(bundles[i]).raised
           chunks == AllChunks(bundles)
           out == IndexChunks(index, chunks, backend)
       IN  IF failed
           THEN /\ storeOp' = [name |-> "ingest_doc", raised |-> TRUE,
                               stored |-> 0, replaced |-> FALSE]
                /\ UNCHANGED <<index, given>>
           ELSE /\ index' = out.index
                /\ storeOp' = [name |-> "ingest_doc", raised |-> out.raised,
                               stored |-> IF out.raised THEN 0 ELSE Len(chunks),
                               replaced |-> ~out.raised /\ Replaces(index, chunks)]
                /\ given' = IF out.raised THEN given
                            ELSE [id \in DOMAIN given \cup ChunkIds(chunks) |->
                                    IF id \in ChunkIds(chunks)
                                    THEN LastWithId(chunks, id)
                                    ELSE given[id]]
    /\ UNCHANGED <<procs, ruleIn, ruleOut, work, ret>>
    /\ UNCHANGED ragVars

InitIndex == AtRest

NextIndex ==
    \E bundles \in DocLists, backend \in BackendOutcomes : IngestDocs(bundles, backend)

SpecIndex == InitIndex /\ [][NextIndex]_vars

-----------------------------------------------------------------------------
(* Two documents indexed at the same time into the one collection; the
   collection upserts one id at a time *)

Procs == {1, 2}

\* index_chunks is entered: the document is loaded and chunked
ChunkDocument(p) ==
    /\ procs # NoProcs
    /\ procs[p].pc = "start"
    /\ LET r == DocChunks(procs[p].bundle)
       IN  procs' = [procs EXCEPT ![p].chunks = r.chunks,
                                  ![p].pc = IF r.raised THEN "failed"
                                            ELSE IF r.chunks = <<>> THEN "done"
                                            ELSE "embed"]
    /\ UNCHANGED <<index, storeOp, given, ruleIn, ruleOut, work, ret>>
    /\ UNCHANGED ragVars

\* add_texts embeds the whole batch before it writes anything
EmbedTexts(p, backend) ==
    /\ procs # NoProcs
    /\ procs[p].pc = "embed"
    /\ procs' = [procs EXCEPT ![p].pc = IF backend = "ok" THEN "upsert" ELSE "failed"]
    /\ UNCHANGED <<index, storeOp, given, ruleIn, ruleOut, work, ret>>
    /\ UNCHANGED ragVars

\* the collection upserts the next id of the batch
UpsertNext(p) ==
    /\ procs # NoProcs
    /\ procs[p].pc = "upsert"
    /\ index' = Upsert(index, IndexEntry(procs[p].chunks[procs[p].next]))
    /\ procs' = [procs EXCEPT ![p].next = @ + 1,
                              ![p].pc = IF procs[p].next = Len(procs[p].chunks)
                                        THEN "done" ELSE "upsert"]
    /\ UNCHANGED <<storeOp, given, ruleIn, ruleOut, work, ret>>
    /\ UNCHANGED ragVars

InitConc ==
    \E d1 \in DocIds, d2 \in DocIds :
        \E b1 \in Bundles(d1, {1}), b2 \in Bundles(d2, {1}) :
            /\ d1 # d2
            /\ procs = [p \in Procs |->
                          [pc |-> "start", bundle |-> IF p = 1 THEN b1 ELSE b2,
                           chunks |-> <<>>, next |-> 1]]
            /\ index = EmptyIndex
            /\ pc = "idle" /\ req = NoReq /\ intent = None /\ events = <<>>
            /\ docs = <<>> /\ result = NoResult
            /\ storeOp = NoOp /\ given = <<>>
            /\ ruleIn = <<>> /\ ruleOut = Unset /\ work = NoWork /\ ret = NoRet

NextConc ==
    \E p \in Procs :
        \/ ChunkDocument(p)
        \/ \E backend \in BackendOutcomes : EmbedTexts(p, backend)
        \/ UpsertNext(p)

SpecConc == InitConc /\ [][NextConc]_vars

-----------------------------------------------------------------------------
(* The chunker on its own: the bundles of two documents loaded and chunked,
   as ingest_doc.main does for each entry of DOCS *)

\* text_items_to_chunks, table_items_to_chunks and image_items_to_chunks on
\* every bundle of the corpus
ChunkCorpus ==
    /\ work.step = "chunk" /\ ret = NoRet
    /\ ret' = [step |-> "chunk",
               docs |-> [b \in 1..Len(work.bundles) |->
                            [text |-> TextItemsToChunks(work.bundles[b]),
                             table |-> TableItemsToChunks(work.bundles[b]),
                             image |-> ImageItemsToChunks(work.bundles[b])]]]
    /\ UNCHANGED <<index, storeOp, given, procs, ruleIn, ruleOut, work>>
    /\ UNCHANGED ragVars

InitChunk ==
    LET \* what load_document_bundle can return for a document: any number of
        \* text blocks, tables and images, with or without a doc_type in the JSON
        LoadedBundles(doc_id) ==
            {DocumentBundle(doc_id, dt, 1, nt, nb, ni) :
                dt \in DocTypes, nt \in 0..MaxBlocks, nb \in 0..MaxBlocks,
                ni \in 0..MaxBlocks}
        \* the second document of a corpus: another id, or an id that extends
        \* the first one with the separator of the chunk ids
        CorpusDocIds == {<<"doc_001", "doc_002">>, <<"doc_001", "doc_001::text">>}
        Corpora ==
            {<<b1, b2>> : b1 \in LoadedBundles("doc_001"),
                          b2 \in UNION {LoadedBundles(ds[2]) : ds \in CorpusDocIds}}
    IN  \E bundles \in Corpora :
            /\ work = [step |-> "chunk", bundles |-> bundles] /\ ret = NoRet
            /\ index = EmptyIndex
            /\ pc = "idle" /\ req = NoReq /\ intent = None /\ events = <<>>
            /\ docs = <<>> /\ result = NoResult
            /\ storeOp = NoOp /\ given = <<>>
            /\ procs = NoProcs
            /\ ruleIn = <<>> /\ ruleOut = Unset

NextChunk == ChunkCorpus

SpecChunk == InitChunk /\ [][NextChunk]_vars

-----------------------------------------------------------------------------
(* ingestion: parse_pdf, extract_tables and extract_images on one PDF, in the
   order run_ingestion_pipeline calls them. The PDF is read as the extractors
   read it: page by page, and once per Camelot flavor. *)

\* the raw blocks of a page
RawPages ==
    LET \* what page.get_text("dict") can hold as a block: one without "lines" (an
        \* image), one whose spans are all blank, one with text
        RAW_BLOCKS == {"nolines", "blank", "text"}
    IN  SeqsUpTo(RAW_BLOCKS, MaxBlocks)

\* camelot.read_pdf for one flavor: it raises, or returns n tables
CamelotOutcomes == {[raised |-> TRUE, n |-> 0]} \cup {[raised |-> FALSE, n |-> n] : n \in 0..MaxBlocks}

flavor_priority == <<"lattice", "stream">>

RECURSIVE ExtractTextBlocksLoop(_, _, _, _)
\* the loop of _extract_text_blocks_from_page over the remaining raw blocks
ExtractTextBlocksLoop(blocks, doc_id, page_number, current_index) ==
    IF blocks = <<>> THEN <<>>
    ELSE IF Head(blocks) # "text"
         THEN ExtractTextBlocksLoop(Tail(blocks), doc_id, page_number, current_index)
         ELSE <<[id |-> BlockId("txt", current_index + 1), doc_id |-> doc_id,
                 page |-> page_number]>>
              \o ExtractTextBlocksLoop(Tail(blocks), doc_id, page_number, current_index + 1)

\* a variant whose running id restarts on every page
ExtractTextBlocksFromPageRestart(blocks, doc_id, page_number, start_index) ==
    ExtractTextBlocksLoop(blocks, doc_id, page_number, 0)

\* _extract_text_blocks_from_page(pdf_page, doc_id, page_number, start_index)
ExtractTextBlocksFromPage(blocks, doc_id, page_number, start_index) ==
    ExtractTextBlocksLoop(blocks, doc_id, page_number, start_index)

\* extract_tables, lines 105-139: the TableBlocks of the n tables one flavor
\* found, table_index tables having been numbered before
TableBlocks(n, doc_id, flavor, table_index) ==
    [t \in 1..n |-> [id |-> BlockId("tbl", table_index + t), doc_id |-> doc_id,
                     name |-> "table_" \o ToString(table_index + t), flavor |-> flavor]]

\* extract_images, lines 56-92: the ImageBlocks of the n images of a page,
\* image_counter images having been numbered before
ImageBlocks(n, doc_id, page_number, image_counter) ==
    [g \in 1..n |-> [id |-> BlockId("img", image_counter + g), doc_id |-> doc_id,
                     page |-> page_number]]

\* parse_pdf, lines 154-164: one turn of the page loop
ParsePage(blocks) ==
    /\ work.step = "extract" /\ work.phase = "parse_pdf"
    /\ work.page_index < work.page_count
    /\ LET page_text_blocks ==
               ExtractTextBlocksFromPage(blocks, work.doc_id, work.page_index + 1,
                                         work.current_index)
           last == work.page_index + 1 = work.page_count
       IN  /\ ret' = [ret EXCEPT !.texts = @ \o page_text_blocks]
           /\ work' = [work EXCEPT
                         !.current_index = @ + Len(page_text_blocks),
                         !.page_index = IF last THEN 0 ELSE @ + 1,
                         !.phase = IF last THEN "extract_tables" ELSE @]
    /\ UNCHANGED <<index, storeOp, given, procs, ruleIn, ruleOut>>
    /\ UNCHANGED ragVars

\* a variant that goes on to the next flavor after one has found tables
TryEveryFlavor(outcome) ==
    /\ work.step = "extract" /\ work.phase = "extract_tables"
    /\ LET flavor == flavor_priority[work.flavor_index]
           found == IF outcome.raised THEN <<>>
                    ELSE TableBlocks(outcome.n, work.doc_id, flavor, work.table_index)
           all_tables == ret.tables \o found
           over == work.flavor_index = Len(flavor_priority)
       IN  /\ ret' = [ret EXCEPT !.tables = all_tables]
           /\ work' = [work EXCEPT
                         !.tried = Append(@, [flavor |-> flavor, raised |-> outcome.raised,
                                              n |-> outcome.n]),
                         !.table_index = @ + Len(found),
                         !.flavor_index = IF over THEN @ ELSE @ + 1,
                         !.phase = IF over THEN "extract_images" ELSE @]
    /\ UNCHANGED <<index, storeOp, given, procs, ruleIn, ruleOut>>
    /\ UNCHANGED ragVars

\* extract_tables, lines 92-143: one turn of the flavor loop; work.tried is
\* the calls of camelot.read_pdf made so far
TryFlavor(outcome) ==
    /\ work.step = "extract" /\ work.phase = "extract_tables"
    /\ LET flavor == flavor_priority[work.flavor_index]
           found == IF outcome.raised THEN <<>>
                    ELSE TableBlocks(outcome.n, work.doc_id, flavor, work.table_index)
           all_tables == ret.tables \o found
           over == all_tables # <<>> \/ work.flavor_index = Len(flavor_priority)
       IN  /\ ret' = [ret EXCEPT !.tables = all_tables]
           /\ work' = [work EXCEPT
                         !.tried = Append(@, [flavor |-> flavor, raised |-> outcome.raised,
                                              n |-> outcome.n]),
                         !.table_index = @ + Len(found),
                         !.flavor_index = IF over THEN @ ELSE @ + 1,
                         !.phase = IF over THEN "extract_images" ELSE @]
    /\ UNCHANGED <<index, storeOp, given, procs, ruleIn, ruleOut>>
    /\ UNCHANGED ragVars

\* extract_images, lines 49-92: one turn of the page loop
ExtractPageImages(n) ==
    /\ work.step = "extract" /\ work.phase = "extract_images"
    /\ LET found == ImageBlocks(n, work.doc_id, work.page_index + 1, work.image_counter)
           last == work.page_index + 1 = work.page_count
       IN  /\ ret' = [ret EXCEPT !.images = @ \o found]
           /\ work' = [work EXCEPT
                         !.image_counter = @ + n,
                         !.page_index = IF last THEN @ ELSE @ + 1,
                         !.phase = IF last THEN "done" ELSE @]
    /\ UNCHANGED <<index, storeOp, given, procs, ruleIn, ruleOut>>
    /\ UNCHANGED ragVars

InitExtract ==
    \E doc_id \in DocIds, page_count \in 1..MaxPages :
        /\ work = [step |-> "extract", phase |-> "parse_pdf", doc_id |-> doc_id,
                   page_count |-> page_count, page_index |-> 0, current_index |-> 0,
                   flavor_index |-> 1, table_index |-> 0, image_counter |-> 0,
                   tried |-> <<>>]
        /\ ret = [step |-> "extract", texts |-> <<>>, tables |-> <<>>, images |-> <<>>]
        /\ index = EmptyIndex
        /\ pc = "idle" /\ req = NoReq /\ intent = None /\ events = <<>>
        /\ docs = <<>> /\ result = NoResult
        /\ storeOp = NoOp /\ given = <<>>
        /\ procs = NoProcs
        /\ ruleIn = <<>> /\ ruleOut = Unset

NextExtract ==
    \/ \E blocks \in RawPages : ParsePage(blocks)
    \/ \E outcome \in CamelotOutcomes : TryFlavor(outcome)
    \/ \E n \in 0..MaxBlocks : ExtractPageImages(n)

SpecExtract == InitExtract /\ [][NextExtract]_vars

-----------------------------------------------------------------------------
(* _table_to_text on its own, on tables of any length *)

\* table_items_to_chunks renders the table: text = _table_to_text(table)
RenderTable ==
    /\ work.step = "render" /\ ret = NoRet
    /\ ret' = [step |-> "render", text |-> TableToText(work.table)]
    /\ UNCHANGED <<index, storeOp, given, procs, ruleIn, ruleOut, work>>
    /\ UNCHANGED ragVars

InitRender ==
    LET LongTables ==
            LET \* a loaded table with n rows, each row different from the others
                LongTable(name, page, columns, n) ==
                    [id |-> BlockId("tbl", 1), doc_id |-> "doc_001", page |-> page,
                     name |-> name, section |-> PyNone, category |-> PyNone,
                     columns |-> columns,
                     rows |-> [r \in 1..n |-> <<"row" \o ToString(r), ToString(100 * r) \o ".00">>],
                     bbox |-> PyNone, doc_type |-> PyStr("bank_statement")]
            IN  {LongTable(name, page, columns, n) :
                    name \in {PyStr("transaction_table"), PyNone}, page \in 1..MaxPages,
                    columns \in {<<>>, <<"date", "amount">>}, n \in 0..MaxRows}
    IN  \E table \in LongTables :
            /\ work = [step |-> "render", table |-> table] /\ ret = NoRet
            /\ index = EmptyIndex
            /\ pc = "idle" /\ req = NoReq /\ intent = None /\ events = <<>>
            /\ docs = <<>> /\ result = NoResult
            /\ storeOp = NoOp /\ given = <<>>
            /\ procs = NoProcs
            /\ ruleIn = <<>> /\ ruleOut = Unset

NextRender == RenderTable

SpecRender == InitRender /\ [][NextRender]_vars

-----------------------------------------------------------------------------
(* index_chunks called on its own with Chunk objects of any metadata: a
   Chunk's metadata is a Dict[str, Any], so it may hold any key, the keys
   index_chunks sets itself included, and values of any type *)

PyBool(b) == [t |-> "bool", v |-> IF b THEN "True" ELSE "False"]

\* Chunk objects of one document
AnyChunks ==
    LET \* metadata maps a Chunk may carry: none, the chunker's, one whose keys clash
        \* with the keys index_chunks sets, one with nested and boolean values
        ChunkMetadatas ==
            { <<>>,
              [block_id |-> PyStr("txt_0001"), section |-> PyNone,
               bbox |-> PyList(<<PyInt(0), PyInt(0), PyInt(10), PyInt(1)>>),
               page |-> PyInt(1), doc_type |-> PyStr("bank_statement")],
              [doc_id |-> PyStr("doc_999"), doc_type |-> PyList(<<>>),
               source |-> PyList(<<PyStr("image")>>), page |-> PyNone,
               chunk_id |-> PyInt(7)],
              [columns |-> PyList(<<PyStr("date"), PyList(<<PyInt(1), PyNone>>)>>),
               reviewed |-> PyBool(TRUE)] }
    IN  {[id |-> ChunkId("doc_001", source, BlockId(source, 1)), doc_id |-> "doc_001",
          doc_type |-> "bank_statement", source |-> source, page |-> page,
          content |-> "content of " \o source, metadata |-> metadata] :
            source \in {"text", "table", "image"}, page \in {PyInt(1), PyNone},
            metadata \in ChunkMetadatas}

\* index_chunks(chunks), the embedding backend ending as `backend`
StoreChunks(chunks, backend) ==
    /\ pc = "idle" /\ storeOp = NoOp
    /\ LET out == IndexChunks(index, chunks, backend)
       IN  /\ index' = out.index
           /\ storeOp' = [name |-> "index_chunks", chunks |-> chunks,
                          raised |-> out.raised]
    /\ UNCHANGED <<given, procs, ruleIn, ruleOut, work, ret>>
    /\ UNCHANGED ragVars

InitStore == AtRest

NextStore ==
    \E chunks \in SeqsUpTo(AnyChunks, MaxBlocks), backend \in BackendOutcomes :
        StoreChunks(chunks, backend)

SpecStore == InitStore /\ [][NextStore]_vars

-----------------------------------------------------------------------------
(* ingestion/document_classifier.py *)

CANDIDATE_TYPES ==
    <<"bank_statement", "invoice", "receipt", "purchase_order", "delivery_note",
      "tax_form", "generic">>

\* the labels as the answer of the model is compared with them
LABEL_CHARS ==
    [bank_statement |->
        <<"b", "a", "n", "k", "_", "s", "t", "a", "t", "e", "m", "e", "n", "t">>,
     invoice |-> <<"i", "n", "v", "o", "i", "c", "e">>,
     receipt |-> <<"r", "e", "c", "e", "i", "p", "t">>,
     purchase_order |->
        <<"p", "u", "r", "c", "h", "a", "s", "e", "_", "o", "r", "d", "e", "r">>,
     delivery_note |-> <<"d", "e", "l", "i", "v", "e", "r", "y", "_", "n", "o", "t", "e">>,
     tax_form |-> <<"t", "a", "x", "_", "f", "o", "r", "m">>,
     generic |-> <<"g", "e", "n", "e", "r", "i", "c">>]

\* the keywords of the rules, lines 70-96
KW ==
    [statement |-> <<"s", "t", "a", "t", "e", "m", "e", "n", "t">>,
     bank |-> <<"b", "a", "n", "k">>,
     invoice |-> <<"i", "n", "v", "o", "i", "c", "e">>,
     receipt |-> <<"r", "e", "c", "e", "i", "p", "t">>,
     slip |-> <<"s", "l", "i", "p">>,
     po |-> <<"p", "o">>,
     purchase |-> <<"p", "u", "r", "c", "h", "a", "s", "e">>,
     bai_jaeng_yod |->
        <<"u0E43", "u0E1A", "u0E41", "u0E08", "u0E49", "u0E07", "u0E22", "u0E2D",
          "u0E14">>,
     yod_khong_luea |->
        <<"u0E22", "u0E2D", "u0E14", "u0E04", "u0E07", "u0E40", "u0E2B", "u0E25",
          "u0E37", "u0E2D">>,
     account |-> <<"a", "c", "c", "o", "u", "n", "t">>,
     tax_invoice |-> <<"t", "a", "x", " ", "i", "n", "v", "o", "i", "c", "e">>,
     bai_kamkap_phasi |->
        <<"u0E43", "u0E1A", "u0E01", "u0E33", "u0E01", "u0E31", "u0E1A", "u0E20",
          "u0E32", "u0E29", "u0E35">>,
     received_with_thanks |->
        <<"r", "e", "c", "e", "i", "v", "e", "d", " ", "w", "i", "t", "h", " ", "t", "h",
          "a", "n", "k", "s">>,
     bai_set |-> <<"u0E43", "u0E1A", "u0E40", "u0E2A", "u0E23", "u0E47", "u0E08">>,
     gfmis |-> <<"g", "f", "m", "i", "s">>,
     gfmis_thai |-> <<"g", "f", "m", "i", "s", " ", "t", "h", "a", "i">>]

MAX_SAMPLE_CHARS == 6000

RECURSIVE CollectLoop(_, _, _, _)
\* the loop of _collect_sample_text: the contents kept, total characters
\* having been kept before
CollectLoop(texts, max_chars, total, chunks) ==
    IF texts = <<>> THEN chunks
    ELSE LET content == Head(texts).content
         IN  IF content = <<>>
             THEN CollectLoop(Tail(texts), max_chars, total, chunks)
             ELSE IF total + Len(content) > max_chars THEN chunks
             ELSE CollectLoop(Tail(texts), max_chars, total + Len(content),
                              Append(chunks, content))

RECURSIVE JoinChars(_, _)
\* sep.join(strs) on character sequences
JoinChars(sep, strs) ==
    IF strs = <<>> THEN <<>>
    ELSE IF Len(strs) = 1 THEN strs[1]
    ELSE strs[1] \o sep \o JoinChars(sep, Tail(strs))

\* _collect_sample_text(texts, max_chars)
CollectSampleText(texts, max_chars) ==
    JoinChars(<<"\n">>, CollectLoop(texts, max_chars, 0, <<>>))

\* s[from..to] lies in s and matches \d throughout
IsDigits(s, from, to) ==
    /\ to <= Len(s)
    /\ \A i \in from..to : s[i] \in {"0", "1", "2", "3", "4", "5", "6", "7", "8", "9"}

RECURSIVE AmountGroups(_, _)
\* (,\d{3})+\.\d{2} matches s from position i
AmountGroups(s, i) ==
    /\ i + 3 <= Len(s)
    /\ s[i] = "," /\ IsDigits(s, i + 1, i + 3)
    /\ \/ i + 6 <= Len(s) /\ s[i + 4] = "." /\ IsDigits(s, i + 5, i + 6)
       \/ AmountGroups(s, i + 4)

\* re.search(r"\d{1,3}(,\d{3})+\.\d{2}", s)
SearchAmount(s) ==
    \E i \in 1..Len(s), n \in 1..3 :
        IsDigits(s, i, i + n - 1) /\ AmountGroups(s, i + n)

\* classify_document_rule_based(doc)
ClassifyDocumentRuleBased(doc) ==
    LET file_name == Lower(doc.metadata.file_name)
        sample == Lower(CollectSampleText(doc.texts, MAX_SAMPLE_CHARS))
    IN  IF Contains(file_name, KW.statement) \/ Contains(file_name, KW.bank)
        THEN "bank_statement"
        ELSE IF Contains(file_name, KW.invoice) THEN "invoice"
        ELSE IF Contains(file_name, KW.receipt) \/ Contains(file_name, KW.slip)
        THEN "receipt"
        ELSE IF Contains(file_name, KW.po) \/ Contains(file_name, KW.purchase)
        THEN "purchase_order"
        ELSE IF \/ Contains(sample, KW.bai_jaeng_yod)
                \/ Contains(sample, KW.yod_khong_luea)
                \/ Contains(sample, KW.account)
        THEN "bank_statement"
        ELSE IF Contains(sample, KW.tax_invoice) \/ Contains(sample, KW.bai_kamkap_phasi)
        THEN "invoice"
        ELSE IF Contains(sample, KW.received_with_thanks) \/ Contains(sample, KW.bai_set)
        THEN "receipt"
        ELSE IF SearchAmount(sample) THEN "bank_statement"
        ELSE IF Contains(sample, KW.gfmis) \/ Contains(sample, KW.gfmis_thai)
        THEN "bank_statement"
        ELSE "generic"

\* how the model path of one classification can go: the import or the call
\* to list_models, GenerativeModel, generate_content or resp.text raises; no
\* GOOGLE_API_KEY; no candidate model among the available ones; or the model
\* answers, with a text or with none
GeminiOutcomes ==
    LET \* texts the model may answer with
        ReplyTexts ==
            { <<>>,
              <<"i", "n", "v", "o", "i", "c", "e">>,
              <<" ", "B", "a", "n", "k", "_", "S", "t", "a", "t", "e", "m", "e",
                "n", "t", "\n">>,
              <<"B", "a", "n", "k", " ", "s", "t", "a", "t", "e", "m", "e", "n", "t">>,
              <<"T", "h", "i", "s", " ", "i", "s", " ", "a", " ", "r", "e", "c",
                "e", "i", "p", "t", ".">>,
              <<"p", "u", "r", "c", "h", "a", "s", "e", " ", "o", "r", "d", "e", "r">>,
              <<"t", "a", "x", "_", "f", "o", "r", "m">>,
              <<"d", "e", "l", "i", "v", "e", "r", "y", " ", "n", "o", "t", "e">>,
              <<"u", "n", "k", "n", "o", "w", "n">> }
    IN  {[kind |-> k, text |-> PyNone] :
            k \in {"import_raises", "no_api_key", "list_models_raises", "no_model",
                   "generate_content_raises", "resp_text_raises"}}
        \cup {[kind |-> "reply", text |-> t] :
                t \in {PyNone} \cup {[t |-> "str", v |-> r] : r \in ReplyTexts}}

\* the calls to the model service that an outcome implies were made
GeminiCalls(outcome) ==
    CASE outcome.kind \in {"import_raises", "no_api_key"} -> <<>>
      [] outcome.kind \in {"list_models_raises", "no_model"} -> <<"genai.list_models">>
      [] OTHER -> <<"genai.list_models", "model.generate_content">>

\* lines 162-179: the label for the text the model answered
LabelOfAnswer(text) ==
    LET answer == Lower(Strip(IF text.t = "str" THEN text.v ELSE <<>>))
    IN  IF \E i \in DOMAIN CANDIDATE_TYPES : answer = LABEL_CHARS[CANDIDATE_TYPES[i]]
        THEN CANDIDATE_TYPES[CHOOSE i \in DOMAIN CANDIDATE_TYPES :
                                answer = LABEL_CHARS[CANDIDATE_TYPES[i]]]
        ELSE IF Contains(answer, KW.bank) /\ Contains(answer, KW.statement)
        THEN "bank_statement"
        ELSE IF Contains(answer, KW.invoice) THEN "invoice"
        ELSE IF Contains(answer, KW.receipt) THEN "receipt"
        ELSE IF Contains(answer, KW.purchase) THEN "purchase_order"
        ELSE "generic"

\* a variant that hands an unmatched answer back as the label
ClassifyDocumentWithGeminiRawAnswer(doc, outcome) ==
    IF outcome.kind # "reply"
    THEN [label |-> ClassifyDocumentRuleBased(doc), calls |-> GeminiCalls(outcome)]
    ELSE [label |-> IF LabelOfAnswer(outcome.text) = "generic"
                    THEN "unknown" ELSE LabelOfAnswer(outcome.text),
          calls |-> GeminiCalls(outcome)]

\* classify_document_with_gemini(doc), the model path going as `outcome`
ClassifyDocumentWithGemini(doc, outcome) ==
    IF outcome.kind # "reply"
    THEN [label |-> ClassifyDocumentRuleBased(doc), calls |-> GeminiCalls(outcome)]
    ELSE [label |-> LabelOfAnswer(outcome.text), calls |-> GeminiCalls(outcome)]

\* classify_document(doc, use_gemini)
ClassifyDocument(doc, use_gemini, outcome) ==
    IF use_gemini THEN ClassifyDocumentWithGemini(doc, outcome)
    ELSE [label |-> ClassifyDocumentRuleBased(doc), calls |-> <<>>]

\* classify_document(doc, use_gemini) is called and returns
Classify(outcome) ==
    /\ work.step = "classify" /\ ret = NoRet
    /\ LET out == ClassifyDocument(work.doc, work.use_gemini, outcome)
       IN  ret' = [step |-> "classify", raised |-> FALSE, label |-> out.label,
                   calls |-> out.calls,
                   outcome |-> IF work.use_gemini THEN outcome.kind ELSE "unused",
                   answer |-> IF work.use_gemini THEN outcome.text ELSE PyNone]
    /\ UNCHANGED <<index, storeOp, given, procs, ruleIn, ruleOut, work>>
    /\ UNCHANGED ragVars

InitClassify ==
    LET \* a parsed document: the file name of its metadata and its text blocks
        ParsedDocs ==
            LET \* file names of uploaded PDFs
                FileNames ==
                    { <<"S", "t", "a", "t", "e", "m", "e", "n", "t", "_", "N", "o", "v",
                        ".", "p", "d", "f">>,
                      <<"I", "N", "V", "O", "I", "C", "E", "-", "7", ".", "p", "d", "f">>,
                      <<"s", "l", "i", "p", ".", "p", "d", "f">>,
                      <<"r", "e", "p", "o", "r", "t", ".", "p", "d", "f">>,
                      <<"s", "c", "a", "n", ".", "p", "d", "f">> }
                \* contents of text blocks
                BlockContents ==
                    { <<>>,
                      <<"A", "c", "c", "o", "u", "n", "t", " ", "n", "o", ".", " ", "1",
                        "2", "3">>,
                      <<"T", "A", "X", " ", "I", "N", "V", "O", "I", "C", "E">>,
                      <<"u0E43", "u0E1A", "u0E40", "u0E2A", "u0E23", "u0E47", "u0E08",
                        "u0E23", "u0E31", "u0E1A", "u0E40", "u0E07", "u0E34", "u0E19">>,
                      <<"t", "o", "t", "a", "l", " ", "1", "2", ",", "3", "4", "5", ".",
                        "6", "7">>,
                      <<"p", "a", "i", "d", " ", "1", "2", ",", "3", "4", ".", "5">> }
            IN  {[metadata |-> [file_name |-> f],
                  texts |-> [i \in 1..Len(cs) |-> [id |-> BlockId("txt", i), content |-> cs[i]]]] :
                    f \in FileNames, cs \in SeqsUpTo(BlockContents, MaxBlocks)}
    IN  \E doc \in ParsedDocs, use_gemini \in BOOLEAN :
            /\ work = [step |-> "classify", doc |-> doc, use_gemini |-> use_gemini]
            /\ ret = NoRet
            /\ index = EmptyIndex
            /\ pc = "idle" /\ req = NoReq /\ intent = None /\ events = <<>>
            /\ docs = <<>> /\ result = NoResult
            /\ storeOp = NoOp /\ given = <<>>
            /\ procs = NoProcs
            /\ ruleIn = <<>> /\ ruleOut = Unset

NextClassify == \E outcome \in GeminiOutcomes : Classify(outcome)

SpecClassify == InitClassify /\ [][NextClassify]_vars

(***************************************************************************)
(* ingestion/cleaner.py                                                    *)
(***************************************************************************)

\* the characters CONTROL_CHAR_RE matches, by the names of four of them:
\* \x01, \x0B (vertical tab), \x0C (form feed), \x1F
CONTROL_CHARS == {"x01", "x0B", "\f", "x1F"}

\* the characters \s matches on a str, the control characters among them
RE_WHITESPACE == WHITESPACE \cup {"x0B", "x1F"}

\* CONTROL_CHAR_RE.sub("", s)
RemoveControlChars(s) == SelectSeq(s, LAMBDA c : c \notin CONTROL_CHARS)

RECURSIVE CollapseWhitespace(_)
\* WHITESPACE_RE.sub(" ", s): every maximal run of whitespace becomes one space
CollapseWhitespace(s) ==
    IF s = <<>> THEN <<>>
    ELSE IF Head(s) \in RE_WHITESPACE
         THEN IF Len(s) > 1 /\ s[2] \in RE_WHITESPACE
              THEN CollapseWhitespace(Tail(s))
              ELSE <<" ">> \o CollapseWhitespace(Tail(s))
         ELSE <<Head(s)>> \o CollapseWhitespace(Tail(s))

RECURSIVE StripSpace(_)
\* s.strip() where s may hold any character \s matches
StripSpace(s) ==
    IF s = <<>> THEN <<>>
    ELSE IF Head(s) \in RE_WHITESPACE THEN StripSpace(Tail(s))
    ELSE IF s[Len(s)] \in RE_WHITESPACE THEN StripSpace(SubSeq(s, 1, Len(s) - 1))
    ELSE s

\* a variant that collapses whitespace before it removes control characters
NormalizeTextCollapseFirst(s) ==
    IF s = <<>> THEN <<>>
    ELSE StripSpace(RemoveControlChars(CollapseWhitespace(s)))

\* _normalize_text(s)
NormalizeText(s) ==
    IF s = <<>> THEN <<>>
    ELSE StripSpace(CollapseWhitespace(RemoveControlChars(s)))

\* clean_text_blocks(blocks): the blocks that are kept, each with its content
\* normalised and extra.cleaning filled in
CleanTextBlocks(blocks) ==
    LET CleanedBlock(b) ==
            LET original == b.content
                normalized == NormalizeText(original)
            IN  [b EXCEPT !.content = normalized,
                          !.extra = [cleaning |->
                                        [original_length |-> Len(original),
                                         cleaned_length |-> Len(normalized),
                                         removed_chars |-> Len(original) - Len(normalized)]]]
    IN  SelectSeq([i \in 1..Len(blocks) |-> CleanedBlock(blocks[i])],
                  LAMBDA b : b.content # <<>>)

\* a TableBlock has no attribute `header` until some stage assigns one
NoHeader == [t |-> "absent"]

\* getattr(tb, "header", [])
GetAttrHeader(tb) == IF tb.header.t = "list" THEN tb.header.v ELSE <<>>

\* one table of clean_table_blocks
CleanedTableBlock(tb) ==
    LET \* row + [""] * (col_count - len(row))
        PadRow(row, n) == row \o [i \in 1..(n - Len(row)) |-> <<>>]
        \* any(v.strip() for v in vals)
        AnyNonBlank(vals) == \E i \in DOMAIN vals : StripSpace(vals[i]) # <<>>
        header == GetAttrHeader(tb)
        rows == tb.rows
        header_clean == [i \in 1..Len(header) |-> NormalizeText(header[i])]
        rows_clean == [r \in 1..Len(rows) |->
                          [c \in 1..Len(rows[r]) |-> NormalizeText(rows[r][c])]]
        restructure == header_clean # <<>> /\ rows_clean # <<>>
        longest == CHOOSE n \in {Len(rows_clean[r]) : r \in DOMAIN rows_clean} :
                       \A r \in DOMAIN rows_clean : Len(rows_clean[r]) <= n
        col_count == IF Len(header_clean) >= longest THEN Len(header_clean) ELSE longest
        header_padded == PadRow(header_clean, col_count)
        rows_padded == [r \in 1..Len(rows_clean) |-> PadRow(rows_clean[r], col_count)]
        col_vals(idx) == <<header_padded[idx]>>
                           \o [r \in 1..Len(rows_padded) |-> rows_padded[r][idx]]
        keep_col_idx == SelectSeq([i \in 1..col_count |-> i],
                                  LAMBDA idx : AnyNonBlank(col_vals(idx)))
        Keep(row) == [k \in 1..Len(keep_col_idx) |-> row[keep_col_idx[k]]]
        header_final == IF restructure THEN Keep(header_padded) ELSE header_clean
        rows_kept == IF restructure
                     THEN [r \in 1..Len(rows_padded) |-> Keep(rows_padded[r])]
                     ELSE rows_clean
        rows_final == SelectSeq(rows_kept, AnyNonBlank)
    IN  [tb EXCEPT !.header = [t |-> "list", v |-> header_final],
                   !.rows = rows_final,
                   !.extra = [cleaning |->
                                 [original_row_count |-> Len(rows),
                                  cleaned_row_count |-> Len(rows_final),
                                  original_header_len |-> Len(header),
                                  cleaned_header_len |-> Len(header_final)]]]

\* clean_table_blocks(tables)
CleanTableBlocks(tables) == [i \in 1..Len(tables) |-> CleanedTableBlock(tables[i])]

\* clean_text_blocks(doc.texts) is called and its result assigned back
CleanTexts ==
    /\ work.step = "clean" /\ work.kind = "text"
    /\ work.passes < MaxPasses
    /\ LET cleaned == CleanTextBlocks(work.blocks)
       IN  /\ ret' = [step |-> "clean", kind |-> "text", raised |-> FALSE,
                      input |-> work.blocks, output |-> cleaned]
           /\ work' = [work EXCEPT !.blocks = cleaned, !.passes = @ + 1]
    /\ UNCHANGED <<index, storeOp, given, procs, ruleIn, ruleOut>>
    /\ UNCHANGED ragVars

\* clean_table_blocks(doc.tables) is called and its result assigned back
CleanTables ==
    /\ work.step = "clean" /\ work.kind = "table"
    /\ work.passes < MaxPasses
    /\ LET cleaned == CleanTableBlocks(work.blocks)
       IN  /\ ret' = [step |-> "clean", kind |-> "table", raised |-> FALSE,
                      input |-> work.blocks, output |-> cleaned]
           /\ work' = [work EXCEPT !.blocks = cleaned, !.passes = @ + 1]
    /\ UNCHANGED <<index, storeOp, given, procs, ruleIn, ruleOut>>
    /\ UNCHANGED ragVars

InitClean ==
    LET \* the text blocks of a document before cleaning
        RawTextBlocks ==
            LET \* contents of text blocks as the parser extracts them
                RawContents ==
                    { <<>>,
                      <<" ", "\n">>,
                      <<"x01">>,
                      <<"a">>,
                      <<"a", " ", "x01", " ", "b">>,
                      <<" ", "a", "\n", "\n", "b", "\t">> }
            IN  {[i \in 1..Len(cs) |-> [id |-> BlockId("txt", i), content |-> cs[i], extra |-> <<>>]] :
                    cs \in SeqsUpTo(RawContents, MaxBlocks)}
        \* a table before cleaning: as extract_tables builds it (columns and rows,
        \* no header attribute), or with the columns also assigned as its header;
        \* a header or row has up to MaxCols cells, a table none, one or two rows
        RawTables ==
            LET RawCells == { <<>>, <<"a", " ">>, <<" ", "x01">> }
                Rows == SeqsUpTo(RawCells, MaxCols)
                RawRows == {<<>>} \cup {<<r>> : r \in Rows} \cup {<<r, s>> : r \in Rows, s \in Rows}
            IN  {[id |-> BlockId("tbl", 1), columns |-> h, rows |-> rows,
                  header |-> IF assigned THEN [t |-> "list", v |-> h] ELSE NoHeader,
                  extra |-> <<>>] :
                    h \in Rows, assigned \in BOOLEAN, rows \in RawRows}
    IN  \E blocks \in [kind : {"text"}, blocks : RawTextBlocks]
                        \cup [kind : {"table"}, blocks : {<<tb>> : tb \in RawTables}] :
            /\ work = [step |-> "clean", kind |-> blocks.kind, blocks |-> blocks.blocks,
                       passes |-> 0]
            /\ ret = NoRet
            /\ index = EmptyIndex
            /\ pc = "idle" /\ req = NoReq /\ intent = None /\ events = <<>>
            /\ docs = <<>> /\ result = NoResult
            /\ storeOp = NoOp /\ given = <<>>
            /\ procs = NoProcs
            /\ ruleIn = <<>> /\ ruleOut = Unset

NextClean == CleanTexts \/ CleanTables

SpecClean == InitClean /\ [][NextClean]_vars

(***************************************************************************)
(* ingestion/semantic_enricher.py                                          *)
(***************************************************************************)

\* HEADER_NORMALIZATION_MAP, its items in the order the dict holds them
HEADER_NORMALIZATION_MAP ==
    << [key |-> <<"d", "a", "t", "e">>,
        canonical |-> <<"d", "a", "t", "e">>],
       [key |-> <<"u0E27", "u0E31", "u0E19", "u0E17", "u0E35", "u0E48">>,
        canonical |-> <<"d", "a", "t", "e">>],
       [key |-> <<"u0E27", "u0E31", "u0E19", "u0E40", "u0E14", "u0E37", "u0E2D",
                   "u0E19", "u0E1B", "u0E35">>,
        canonical |-> <<"d", "a", "t", "e">>],
       [key |-> <<"d", "e", "s", "c", "r", "i", "p", "t", "i", "o", "n">>,
        canonical |-> <<"d", "e", "s", "c", "r", "i", "p", "t", "i", "o", "n">>],
       [key |-> <<"d", "e", "t", "a", "i", "l", "s">>,
        canonical |-> <<"d", "e", "s", "c", "r", "i", "p", "t", "i", "o", "n">>],
       [key |-> <<"u0E23", "u0E32", "u0E22", "u0E25", "u0E30", "u0E40", "u0E2D",
                   "u0E35", "u0E22", "u0E14">>,
        canonical |-> <<"d", "e", "s", "c", "r", "i", "p", "t", "i", "o", "n">>],
       [key |-> <<"u0E23", "u0E32", "u0E22", "u0E01", "u0E32", "u0E23">>,
        canonical |-> <<"d", "e", "s", "c", "r", "i", "p", "t", "i", "o", "n">>],
       [key |-> <<"d", "e", "b", "i", "t">>,
        canonical |-> <<"a", "m", "o", "u", "n", "t", "_", "o", "u", "t">>],
       [key |-> <<"w", "i", "t", "h", "d", "r", "a", "w", "a", "l">>,
        canonical |-> <<"a", "m", "o", "u", "n", "t", "_", "o", "u", "t">>],
       [key |-> <<"u0E16", "u0E2D", "u0E19">>,
        canonical |-> <<"a", "m", "o", "u", "n", "t", "_", "o", "u", "t">>],
       [key |-> <<"u0E08", "u0E48", "u0E32", "u0E22">>,
        canonical |-> <<"a", "m", "o", "u", "n", "t", "_", "o", "u", "t">>],
       [key |-> <<"c", "r", "e", "d", "i", "t">>,
        canonical |-> <<"a", "m", "o", "u", "n", "t", "_", "i", "n">>],
       [key |-> <<"d", "e", "p", "o", "s", "i", "t">>,
        canonical |-> <<"a", "m", "o", "u", "n", "t", "_", "i", "n">>],
       [key |-> <<"u0E1D", "u0E32", "u0E01">>,
        canonical |-> <<"a", "m", "o", "u", "n", "t", "_", "i", "n">>],
       [key |-> <<"u0E23", "u0E31", "u0E1A">>,
        canonical |-> <<"a", "m", "o", "u", "n", "t", "_", "i", "n">>],
       [key |-> <<"b", "a", "l", "a", "n", "c", "e">>,
        canonical |-> <<"b", "a", "l", "a", "n", "c", "e">>],
       [key |-> <<"u0E22", "u0E2D", "u0E14", "u0E04", "u0E07", "u0E40", "u0E2B",
                   "u0E25", "u0E37", "u0E2D">>,
        canonical |-> <<"b", "a", "l", "a", "n", "c", "e">>],
       [key |-> <<"u0E04", "u0E07", "u0E40", "u0E2B", "u0E25", "u0E37", "u0E2D">>,
        canonical |-> <<"b", "a", "l", "a", "n", "c", "e">>],
       [key |-> <<"a", "m", "o", "u", "n", "t">>,
        canonical |-> <<"a", "m", "o", "u", "n", "t">>],
       [key |-> <<"u0E22", "u0E2D", "u0E14", "u0E40", "u0E07", "u0E34", "u0E19">>,
        canonical |-> <<"a", "m", "o", "u", "n", "t">>],
       [key |-> <<"u0E08", "u0E33", "u0E19", "u0E27", "u0E19", "u0E40", "u0E07",
                   "u0E34", "u0E19">>,
        canonical |-> <<"a", "m", "o", "u", "n", "t">>] >>

SECTION_LABELS ==
    << <<"h", "e", "a", "d", "e", "r">>,
       <<"s", "u", "m", "m", "a", "r", "y">>,
       <<"t", "r", "a", "n", "s", "a", "c", "t", "i", "o", "n", "s">>,
       <<"f", "o", "o", "t", "e", "r">>,
       <<"o", "t", "h", "e", "r">> >>

\* _guess_section_rule(block): the rules in order, each a label and the
\* keywords that give it
GuessSectionRule(block) ==
    LET txt == Lower(block.content)
        rules ==
            << [label |-> <<"s", "u", "m", "m", "a", "r", "y">>, keywords |->
                    { <<"s", "u", "m", "m", "a", "r", "y">>,
                      <<"u0E2A", "u0E23", "u0E38", "u0E1B">>,
                      <<"o", "v", "e", "r", "v", "i", "e", "w">> }],
               [label |-> <<"t", "r", "a", "n", "s", "a", "c", "t", "i", "o", "n", "s">>, keywords |->
                    { <<"u0E23", "u0E32", "u0E22", "u0E01", "u0E32", "u0E23", "u0E40",
                        "u0E14", "u0E34", "u0E19", "u0E1A", "u0E31", "u0E0D", "u0E0A",
                        "u0E35">>,
                      <<"t", "r", "a", "n", "s", "a", "c", "t", "i", "o", "n">>,
                      <<"m", "o", "v", "e", "m", "e", "n", "t">> }],
               [label |-> <<"t", "r", "a", "n", "s", "a", "c", "t", "i", "o", "n", "s">>, keywords |->
                    { <<"u0E23", "u0E32", "u0E22", "u0E01", "u0E32", "u0E23">>,
                      <<"u0E23", "u0E32", "u0E22", "u0E25", "u0E30", "u0E40", "u0E2D",
                        "u0E35", "u0E22", "u0E14", "u0E1A", "u0E31", "u0E0D", "u0E0A",
                        "u0E35">>,
                      <<"s", "t", "a", "t", "e", "m", "e", "n", "t">> }],
               [label |-> <<"f", "o", "o", "t", "e", "r">>, keywords |->
                    { <<"u0E25", "u0E07", "u0E0A", "u0E37", "u0E48", "u0E2D">>,
                      <<"u0E1C", "u0E39", "u0E49", "u0E21", "u0E35", "u0E2D", "u0E33",
                        "u0E19", "u0E32", "u0E08", "u0E25", "u0E07", "u0E19", "u0E32",
                        "u0E21">>,
                      <<"u0E02", "u0E2D", "u0E41", "u0E2A", "u0E14", "u0E07", "u0E04",
                        "u0E27", "u0E32", "u0E21", "u0E19", "u0E31", "u0E1A", "u0E16",
                        "u0E37", "u0E2D">>,
                      <<"s", "i", "g", "n", "a", "t", "u", "r", "e">> }] >>
        Hit(r) == \E k \in rules[r].keywords : Contains(txt, k)
    IN  IF \E r \in DOMAIN rules : Hit(r)
        THEN rules[CHOOSE r \in DOMAIN rules :
                      Hit(r) /\ \A q \in 1..(r - 1) : ~Hit(q)].label
        ELSE <<"o", "t", "h", "e", "r">>

\* _normalize_header_name(h): the canonical name of the first key of the map
\* that the cleaned cell holds
NormalizeHeaderName(h) ==
    LET h_clean == Lower(Strip(h))
        Has(i) == Contains(h_clean, HEADER_NORMALIZATION_MAP[i].key)
    IN  IF h_clean = <<>> THEN <<>>
        ELSE IF \E i \in DOMAIN HEADER_NORMALIZATION_MAP : Has(i)
        THEN HEADER_NORMALIZATION_MAP[
                 CHOOSE i \in DOMAIN HEADER_NORMALIZATION_MAP :
                     Has(i) /\ \A j \in 1..(i - 1) : ~Has(j)].canonical
        ELSE h_clean

\* normalize_tables(tables): the header, extra["header_normalization"] and
\* extra["role"] (_guess_table_role on the normalized header) of every table
NormalizeTables(tables) ==
    LET Chars(s) == [i \in 1..Len(s) |-> s[i]]
        amount_words ==
            { <<"a", "m", "o", "u", "n", "t">>,
              <<"u0E22", "u0E2D", "u0E14", "u0E40", "u0E07", "u0E34", "u0E19">>,
              <<"d", "e", "b", "i", "t">>, <<"c", "r", "e", "d", "i", "t">>,
              <<"u0E22", "u0E2D", "u0E14", "u0E04", "u0E07", "u0E40", "u0E2B", "u0E25",
                "u0E37", "u0E2D">>,
              <<"b", "a", "l", "a", "n", "c", "e">> }
        summary_words ==
            { <<"s", "u", "m", "m", "a", "r", "y">>,
              <<"u0E2A", "u0E23", "u0E38", "u0E1B">>,
              <<"t", "o", "t", "a", "l">>, <<"u0E23", "u0E27", "u0E21">> }
        GuessTableRole(header) ==
            LET header_lower == [i \in 1..Len(header) |-> Lower(header[i])]
            IN  IF /\ \E i \in DOMAIN header_lower :
                          Contains(header_lower[i], <<"d", "a", "t", "e">>)
                   /\ \E i \in DOMAIN header_lower, x \in amount_words :
                          Contains(header_lower[i], x)
                THEN "transaction_table"
                ELSE IF \E k \in summary_words :
                            Contains(JoinChars(<<" ">>, header_lower), k)
                THEN "summary_table"
                ELSE "other_table"
        Normalized(tb) ==
            LET header == GetAttrHeader(tb)
                normalized_header ==
                    [i \in 1..Len(header) |-> NormalizeHeaderName(header[i])]
            IN  [tb EXCEPT
                    !.header = [t |-> "list", v |-> normalized_header],
                    !.extra = DictMerge(@,
                        [header_normalization |->
                            [original_header |-> header,
                             normalized_header |-> normalized_header],
                         role |-> GuessTableRole(normalized_header)])]
    IN  [i \in 1..Len(tables) |-> Normalized(tables[i])]

\* lines 107-122 of tag_sections: the dict `mapping` that the response's text
\* gives, as the set of its items; a line adds an item when it holds a colon
\* and int() reads what stands before it, and a later item replaces an
\* earlier one of the same index
SectionMapping(text) ==
    LET RECURSIVE SplitLines(_)
        \* str.splitlines
        SplitLines(s) ==
            IF s = <<>> THEN <<>>
            ELSE IF \E i \in DOMAIN s : s[i] = "\n"
            THEN LET n == CHOOSE i \in DOMAIN s :
                              s[i] = "\n" /\ \A j \in 1..(i - 1) : s[j] # "\n"
                 IN  <<SubSeq(s, 1, n - 1)>> \o SplitLines(SubSeq(s, n + 1, Len(s)))
            ELSE <<s>>
        lines == SplitLines(IF text.t = "str" THEN text.v ELSE <<>>)
        ParseSectionLine(raw) ==
            LET line == Strip(raw)
                colon == CHOOSE i \in 1..Len(line) :
                             line[i] = ":" /\ \A j \in 1..(i - 1) : line[j] # ":"
                RECURSIVE StripBrackets(_)
                StripBrackets(s) ==
                    IF s = <<>> THEN s
                    ELSE IF Head(s) \in {"[", "]"} THEN StripBrackets(Tail(s))
                    ELSE IF s[Len(s)] \in {"[", "]"} THEN StripBrackets(SubSeq(s, 1, Len(s) - 1))
                    ELSE s
                idx_str == StripBrackets(Strip(SubSeq(line, 1, colon - 1)))
                label == Lower(Strip(SubSeq(line, colon + 1, Len(line))))
                \* int(idx_str): blanks around, a sign, decimal digits
                digits == <<"0", "1", "2", "3", "4", "5", "6", "7", "8", "9">>
                body == Strip(idx_str)
                signed == body # <<>> /\ Head(body) \in {"+", "-"}
                number == IF signed THEN Tail(body) ELSE body
                IsInt == number # <<>> /\ \A i \in DOMAIN number : number[i] \in Range(digits)
                Digit(c) == (CHOOSE d \in DOMAIN digits : digits[d] = c) - 1
                RECURSIVE Value(_)
                Value(s) == IF s = <<>> THEN 0
                            ELSE 10 * Value(SubSeq(s, 1, Len(s) - 1)) + Digit(s[Len(s)])
            IN  IF line = <<>> \/ ~Contains(line, <<":">>) THEN [ok |-> FALSE]
                ELSE IF ~IsInt THEN [ok |-> FALSE]
                ELSE [ok |-> TRUE,
                      idx |-> IF signed /\ Head(body) = "-" THEN 0 - Value(number)
                              ELSE Value(number),
                      label |-> IF label \in Range(SECTION_LABELS) THEN label
                                ELSE <<"o", "t", "h", "e", "r">>]
        RECURSIVE Mapping(_)
        Mapping(n) ==
            IF n = 0 THEN {}
            ELSE LET parsed == ParseSectionLine(lines[n])
                 IN  IF parsed.ok
                     THEN {m \in Mapping(n - 1) : m.idx # parsed.idx}
                            \cup {[idx |-> parsed.idx, label |-> parsed.label]}
                     ELSE Mapping(n - 1)
    IN  Mapping(Len(lines))

\* a variant that keeps the model's labels only when it labelled every block
TagSectionsAllOrNothing(texts, use_gemini, outcome) ==
    LET Tagged(b, label) == [b EXCEPT !.extra = DictMerge(@, [section |-> label])]
        mapping == SectionMapping(outcome.text)
        complete == \A i \in 0..(Len(texts) - 1) : \E m \in mapping : m.idx = i
    IN  [i \in 1..Len(texts) |->
            Tagged(texts[i],
                   IF use_gemini /\ outcome.kind = "reply" /\ complete
                   THEN (CHOOSE m \in mapping : m.idx = i - 1).label
                   ELSE GuessSectionRule(texts[i]))]

\* tag_sections(doc, use_gemini), the model path going as `outcome`: the text
\* blocks with extra["section"] set
TagSections(texts, use_gemini, outcome) ==
    LET Tagged(b, label) == [b EXCEPT !.extra = DictMerge(@, [section |-> label])]
        mapping == SectionMapping(outcome.text)
        Get(i, default) ==
            IF \E m \in mapping : m.idx = i
            THEN (CHOOSE m \in mapping : m.idx = i).label
            ELSE default
    IN  IF use_gemini /\ outcome.kind = "reply"
        THEN [i \in 1..Len(texts) |->
                Tagged(texts[i], Get(i - 1, GuessSectionRule(texts[i])))]
        ELSE [i \in 1..Len(texts) |-> Tagged(texts[i], GuessSectionRule(texts[i]))]

\* tag_sections(doc, use_gemini) is called on the text blocks; the model path
\* goes one of these ways: _get_gemini_model returns None (no GEMINI_API_KEY,
\* or the client cannot be built), generate_content raises, or the model
\* answers with no text or with up to two lines
TagSectionsCall ==
    LET
        \* lines the model may answer with
        ReplyLines ==
            { <<"0", ":", " ", "h", "e", "a", "d", "e", "r">>,
              <<"[", "1", "]", ":", " ", "S", "u", "m", "m", "a", "r", "y">>,
              <<"x", ":", " ", "f", "o", "o", "t", "e", "r">>,
              <<"1", ":", " ", "b", "o", "g", "u", "s">>,
              <<"n", "o", " ", "c", "o", "l", "o", "n", " ", "h", "e", "r", "e">>,
              <<"0", ":", "f", "o", "o", "t", "e", "r">>,
              <<" ", "1", " ", ":", " ", "t", "r", "a", "n", "s", "a", "c", "t", "i",
                "o", "n", "s", " ">>,
              <<"7", ":", " ", "f", "o", "o", "t", "e", "r">> }
        Outcomes ==
            {[kind |-> "no_model", text |-> PyNone],
             [kind |-> "call_raises", text |-> PyNone],
             [kind |-> "reply", text |-> PyNone]}
              \cup {[kind |-> "reply",
                     text |-> [t |-> "str", v |-> JoinChars(<<"\n">>, ls)]] :
                        ls \in SeqsUpTo(ReplyLines, 2)}
    IN  /\ work.step = "enrich" /\ work.kind = "text"
        /\ work.passes = 0
        /\ \E use_gemini \in BOOLEAN, outcome \in Outcomes :
            LET tagged == TagSections(work.blocks, use_gemini, outcome)
            IN  /\ ret' = [step |-> "tag_sections",
                           use_gemini |-> use_gemini,
                           outcome |-> IF use_gemini THEN outcome
                                       ELSE [kind |-> "unused", text |-> PyNone],
                           input |-> work.blocks, output |-> tagged]
                /\ work' = [work EXCEPT !.blocks = tagged, !.passes = @ + 1]
        /\ UNCHANGED <<index, storeOp, given, procs, ruleIn, ruleOut>>
        /\ UNCHANGED ragVars

\* normalize_tables(doc.tables) is called
NormalizeTablesCall ==
    /\ work.step = "enrich" /\ work.kind = "table"
    /\ work.passes < MaxPasses
    /\ LET normalized == NormalizeTables(work.blocks)
       IN  /\ ret' = [step |-> "normalize_tables",
                      input |-> work.blocks, output |-> normalized]
           /\ work' = [work EXCEPT !.blocks = normalized, !.passes = @ + 1]
    /\ UNCHANGED <<index, storeOp, given, procs, ruleIn, ruleOut>>
    /\ UNCHANGED ragVars

\* the text blocks of a parsed document, or the tables of one: a table as
\* extract_tables builds it (columns and rows, no header attribute) or with
\* its columns also assigned as its header
InitEnrich ==
    LET
        \* contents of text blocks
        Contents ==
            { <<"A", "c", "c", "o", "u", "n", "t", " ", "S", "u", "m", "m", "a", "r",
                "y">>,
              <<"T", "r", "a", "n", "s", "a", "c", "t", "i", "o", "n", " ", "l", "i",
                "s", "t">>,
              <<"A", "u", "t", "h", "o", "r", "i", "z", "e", "d", " ", "s", "i", "g",
                "n", "a", "t", "u", "r", "e">>,
              <<"D", "e", "a", "r", " ", "c", "u", "s", "t", "o", "m", "e", "r">> }
        \* cells of a header: synonyms in any case, one padded and holding two
        \* synonyms, one that holds none, a blank one, a canonical name
        HeaderCells ==
            { <<"D", "a", "t", "e">>,
              <<"D", "e", "s", "c", "r", "i", "p", "t", "i", "o", "n">>,
              <<"D", "e", "b", "i", "t">>,
              <<"B", "a", "l", "a", "n", "c", "e">>,
              <<" ", "C", "r", "e", "d", "i", "t", " ", "A", "m", "o", "u", "n", "t",
                " ">>,
              <<"R", "e", "f", " ", "N", "o">>,
              <<>>,
              <<"a", "m", "o", "u", "n", "t", "_", "i", "n">> }
        Headers ==
            SeqsUpTo(HeaderCells, MaxCols)
              \cup { << <<"D", "a", "t", "e">>,
                        <<"D", "e", "s", "c", "r", "i", "p", "t", "i", "o", "n">>,
                        <<"D", "e", "b", "i", "t">>,
                        <<"B", "a", "l", "a", "n", "c", "e">> >> }
        TextBlocks ==
            {[i \in 1..Len(cs) |-> [id |-> BlockId("txt", i), content |-> cs[i], extra |-> <<>>]] :
                cs \in SeqsUpTo(Contents, MaxBlocks)}
        Tables ==
            {[id |-> BlockId("tbl", 1), columns |-> h,
              rows |-> <<[i \in 1..Len(h) |-> <<"1">>]>>,
              header |-> IF assigned THEN [t |-> "list", v |-> h] ELSE NoHeader,
              extra |-> <<>>] :
                h \in Headers, assigned \in BOOLEAN}
    IN  \E blocks \in [kind : {"text"}, blocks : TextBlocks]
                        \cup [kind : {"table"}, blocks : {<<tb>> : tb \in Tables}] :
            /\ work = [step |-> "enrich", kind |-> blocks.kind, blocks |-> blocks.blocks,
                       passes |-> 0]
            /\ ret = NoRet
            /\ index = EmptyIndex
            /\ pc = "idle" /\ req = NoReq /\ intent = None /\ events = <<>>
            /\ docs = <<>> /\ result = NoResult
            /\ storeOp = NoOp /\ given = <<>>
            /\ procs = NoProcs
            /\ ruleIn = <<>> /\ ruleOut = Unset

NextEnrich == TagSectionsCall \/ NormalizeTablesCall

SpecEnrich == InitEnrich /\ [][NextEnrich]_vars

(***************************************************************************)
(* ingestion/validator.py, scripts/run_ingestion.py, scripts/run_all.py    *)
(***************************************************************************)

\* a variant that gives every table the header it is validated against
ValidateAllAssignHeader(doc) ==
    [raised |-> FALSE, issues |-> <<>>,
     doc |-> [doc EXCEPT !.tables =
                [i \in 1..Len(doc.tables) |->
                    [doc.tables[i] EXCEPT !.header =
                        [t |-> "list", v |-> GetAttrHeader(doc.tables[i])]]]]]

\* validate_all(doc): the issues of validate_document_structure,
\* validate_tables and validate_images in this order, and the document as
\* the call leaves it
ValidateAll(doc) ==
    LET Issue(level, code, context) ==
            [level |-> level, code |-> code, context |-> context]
        \* getattr(obj, name, default) of an attribute that may not be there
        GetAttr(attr, default) == IF attr.t = "absent" THEN default ELSE attr
        validate_document_structure ==
            (IF doc.metadata.doc_id = ""
             THEN <<Issue("error", "MISSING_DOC_ID", <<>>)>> ELSE <<>>)
            \o (IF doc.metadata.file_name = ""
                THEN <<Issue("warning", "MISSING_FILE_NAME", <<>>)>> ELSE <<>>)
            \o (IF doc.texts = <<>>
                THEN <<Issue("error", "NO_TEXT_BLOCKS", <<>>)>> ELSE <<>>)
        TableIssues(idx) ==
            LET tb == doc.tables[idx + 1]
                header == GetAttrHeader(tb)
                rows == tb.rows
            IN  (IF header = <<>> /\ rows # <<>>
                 THEN <<Issue("warning", "TABLE_NO_HEADER", [table_index |-> idx])>>
                 ELSE <<>>)
                \o (IF header # <<>> /\ rows = <<>>
                    THEN <<Issue("warning", "TABLE_NO_ROWS", [table_index |-> idx])>>
                    ELSE <<>>)
                \o JoinChars(<<>>,
                     [r \in 1..Len(rows) |->
                        IF Len(rows[r]) # Len(header)
                        THEN <<Issue("warning", "ROW_LEN_MISMATCH",
                                     [table_index |-> idx, row_index |-> r - 1])>>
                        ELSE <<>>])
        validate_tables ==
            JoinChars(<<>>, [i \in 1..Len(doc.tables) |-> TableIssues(i - 1)])
        validate_images ==
            JoinChars(<<>>,
                [i \in 1..Len(doc.images) |->
                    IF /\ ~Truthy(GetAttr(doc.images[i].image_path, PyNone))
                       /\ ~Truthy(GetAttr(doc.images[i].ref, PyNone))
                    THEN <<Issue("warning", "IMAGE_NO_PATH", [image_index |-> i - 1])>>
                    ELSE <<>>])
    IN  [raised |-> FALSE,
         issues |-> validate_document_structure \o validate_tables \o validate_images,
         doc |-> doc]

\* validate_all(doc) is called on a document
ValidateAllCall ==
    /\ work.step = "validate" /\ work.mode = "call"
    /\ ret = NoRet
    /\ LET out == ValidateAll(work.doc)
       IN  /\ ret' = [step |-> "validate_all", raised |-> out.raised,
                      issues |-> out.issues, before |-> work.doc, after |-> out.doc]
           /\ work' = [work EXCEPT !.doc = out.doc]
    /\ UNCHANGED <<index, storeOp, given, procs, ruleIn, ruleOut>>
    /\ UNCHANGED ragVars

\* run_all(pdf_path, ...): the next call of run_ingestion_pipeline (lines
\* 115-170 of run_ingestion.py) or of run_all (lines 39-56) is made and ends
\* normally or, when ok is FALSE, by raising; only the exception of
\* classify_document is caught (run_ingestion.py:126-132)
RunStage(ok) ==
    LET stages == <<"parse_pdf", "classify_document", "extract_tables",
                    "extract_images", "validate_all", "save_ingested_document",
                    "run_cleaning", "run_semantic_enrich">>
        stage == stages[Len(work.log) + 1]
        doc == work.doc
        failed == IF stage = "validate_all" THEN ValidateAll(doc).raised ELSE ~ok
        after ==
            CASE stage = "parse_pdf" -> [doc EXCEPT !.texts = work.pdf.texts]
              [] stage = "classify_document" ->
                    [doc EXCEPT !.metadata.doc_type = "bank_statement"]
              [] stage = "extract_tables" -> [doc EXCEPT !.tables = work.pdf.tables]
              [] stage = "extract_images" -> [doc EXCEPT !.images = work.pdf.images]
              [] stage = "validate_all" -> ValidateAll(doc).doc
              [] stage = "run_cleaning" -> [doc EXCEPT !.cleaned = TRUE]
              [] stage = "run_semantic_enrich" -> [doc EXCEPT !.enriched = TRUE]
              [] OTHER -> doc
    IN  /\ work.step = "validate" /\ work.mode = "run_all"
        /\ ~work.raised /\ Len(work.log) < Len(stages)
        /\ work' = [work EXCEPT
                      !.log = Append(@, stage),
                      !.raised = failed /\ stage # "classify_document",
                      !.doc = IF failed THEN doc ELSE after,
                      !.saved = IF ~failed /\ stage = "save_ingested_document"
                                THEN <<doc>> ELSE @]
        /\ ret' = IF stage = "validate_all"
                  THEN [step |-> "validate_all", raised |-> ValidateAll(doc).raised,
                        issues |-> ValidateAll(doc).issues,
                        before |-> doc, after |-> after]
                  ELSE ret
        /\ UNCHANGED <<index, storeOp, given, procs, ruleIn, ruleOut>>
        /\ UNCHANGED ragVars

\* a document handed to validate_all, or a PDF handed to run_all: its text
\* blocks, the tables extract_tables builds from it (columns and rows, no
\* header attribute) and the images extract_images builds (file_path set, no
\* image_path and no ref attribute)
InitPipeline ==
    LET Absent == [t |-> "absent"]
        Row(n) == [c \in 1..n |-> "c"]
        RowLists(n) == {<<>>, <<Row(n)>>, <<Row(0)>>, <<Row(n), Row(n + 1)>>}
        Table(n, assigned, rows) ==
            [columns |-> Row(n), rows |-> rows,
             header |-> IF assigned THEN [t |-> "list", v |-> Row(n)] ELSE NoHeader,
             extra |-> <<>>]
        Tables(assigned) ==
            UNION {{Table(n, assigned, rows) : rows \in RowLists(n)} : n \in 0..MaxCols}
        ExtractedTables == Tables(FALSE)
        AnyTables == Tables(FALSE) \cup Tables(TRUE)
        TextBlocks(n) == [i \in 1..n |-> [id |-> BlockId("txt", i), content |-> "text"]]
        Image(file_path, image_path, ref) ==
            [id |-> BlockId("img", 1), file_path |-> file_path,
             image_path |-> image_path, ref |-> ref]
        ExtractedImages == {Image("ingested/doc_001/images/img_p1_1.png", Absent, Absent)}
        AnyImages ==
            {Image(f, p, r) :
                f \in {"", "ingested/doc_001/images/img_p1_1.png"},
                p \in {Absent, PyStr("img_p1_1.png")},
                r \in {Absent, PyNone}}
        Doc(doc_id, file_name, texts, tables, images) ==
            [metadata |-> [doc_id |-> doc_id, file_name |-> file_name,
                           doc_type |-> "generic"],
             texts |-> texts, tables |-> tables, images |-> images,
             cleaned |-> FALSE, enriched |-> FALSE]
        Calls ==
            {[step |-> "validate", mode |-> "call",
              doc |-> Doc(doc_id, file_name, TextBlocks(nt), tables, images)] :
                doc_id \in {"", "doc_001"}, file_name \in {"", "sample.pdf"},
                nt \in 0..1, tables \in SeqsUpTo(AnyTables, 2),
                images \in SeqsUpTo(AnyImages, 1)}
        Runs ==
            {[step |-> "validate", mode |-> "run_all",
              pdf |-> [texts |-> TextBlocks(nt), tables |-> tables, images |-> images],
              doc |-> Doc("doc_001", "sample.pdf", <<>>, <<>>, <<>>),
              log |-> <<>>, raised |-> FALSE, saved |-> <<>>] :
                nt \in 0..MaxBlocks, tables \in SeqsUpTo(ExtractedTables, 1),
                images \in SeqsUpTo(ExtractedImages, 1)}
    IN  /\ work \in Calls \cup Runs
        /\ ret = NoRet
        /\ index = EmptyIndex
        /\ pc = "idle" /\ req = NoReq /\ intent = None /\ events = <<>>
        /\ docs = <<>> /\ result = NoResult
        /\ storeOp = NoOp /\ given = <<>>
        /\ procs = NoProcs
        /\ ruleIn = <<>> /\ ruleOut = Unset

NextPipeline ==
    \/ ValidateAllCall
    \/ \E ok \in BOOLEAN : RunStage(ok)

SpecPipeline == InitPipeline /\ [][NextPipeline]_vars

-----------------------------------------------------------------------------
(* Properties of answer_question *)

\* the current call has made the named call
Called(name) == \E i \in 1..Len(events) : events[i].call = name

\* the searches of the current call, as positions in its log
SearchEvents == {i \in 1..Len(events) : events[i].call = "search_similar"}

\* the search of the current call returned, and returned nothing
SearchReturnedEmpty ==
    /\ pc \in {"generate", "done"}
    /\ docs = <<>>

\* the query is blank: nothing is left of it after lower() and strip()
Blank(query) == Strip(Lower(query)) = <<>>

HasTableKeyword(query) ==
    \E kw \in table_keywords : Contains(Strip(Lower(query)), kw)

HasImageKeyword(query) ==
    \E kw \in image_keywords : Contains(Strip(Lower(query)), kw)

\* the intent is resolved: the call is past lines 196-207
IntentResolved == pc \in {"retrieve", "generate", "done"}

\* C1 as stated: whenever the search returns an empty list, the call returns
\* the fixed no-results answer with no citations and the resolved intent, and
\* the generative model was not invoked at any point of the call.
C1_NoModelCallAtAll ==
    SearchReturnedEmpty =>
        /\ pc = "done"
        /\ result = Returned(NO_RESULTS_ANSWER, <<>>, intent, req.mode)
        /\ ~Called("llm.ainvoke:intent")
        /\ ~Called("llm.ainvoke:answer")

\* C1 amended: whenever the search returns an empty list, the call returns the
\* fixed no-results answer with no citations and the resolved intent, and the
\* answer-generation call is not made; the generative model is invoked in
\* that call only by classify_query_intent, to resolve the intent of a blank
\* query under mode auto or an unrecognised mode.
C1_NoResultsShortCircuit ==
    SearchReturnedEmpty =>
        /\ pc = "done"
        /\ result = Returned(NO_RESULTS_ANSWER, <<>>, intent, req.mode)
        /\ intent \in Intents
        /\ ~Called("llm.ainvoke:answer")
        /\ Called("llm.ainvoke:intent") =>
                req.mode \notin ExplicitModes /\ Blank(req.query)

\* a no-results return from a non-empty index, the intent having come from
\* the model
C1_Witness ==
    /\ pc = "done"
    /\ docs = <<>>
    /\ index # EmptyIndex
    /\ result.kind = "return"
    /\ Called("llm.ainvoke:intent")

\* the distinct error of a failed retrieval backend: the HTTPException the
\* first definition of search_similar raises
RETRIEVAL_UNAVAILABLE == "HTTPException(500, Embedding error)"

\* C2: when the retrieval backend fails during search_similar, the caller
\* receives the distinct "retrieval backend unavailable" error; the failure
\* is never turned into an empty result list nor reported as the no-results
\* answer.
C2_DistinctRetrievalError ==
    \A i \in SearchEvents :
        events[i].raised =>
            /\ result.kind = "raise"
            /\ result.error = RETRIEVAL_UNAVAILABLE

\* the half of C2 the code keeps: a failed search is never answered, neither
\* with retrieved documents nor with the no-results answer
C2_FailureNotSwallowed ==
    \A i \in SearchEvents :
        events[i].raised => (pc = "raised" /\ result.kind = "raise" /\ docs = <<>>)

\* C3: intent resolution always ends with an intent in {text, table, both}
\* and never raises, whatever the mode and the query, also when the client
\* of the model-based classifier cannot be built or its call fails.
C3_IntentNeverRaises ==
    /\ IntentResolved => intent \in Intents
    /\ ~(result.kind = "raise" /\ result.at = "classify_query_intent")

\* C4: under an explicit mode the resolved intent is the mode, and neither
\* the rule-based nor the model-based classifier is run.
C4_ExplicitModeAuthoritative ==
    (req.mode \in ExplicitModes /\ pc \notin {"idle", "intent"}) =>
        /\ intent = req.mode
        /\ ~Called("_rule_based_intent")
        /\ ~Called("classify_query_intent")
        /\ ~Called("llm.ainvoke:intent")

\* an explicit mode won over what the rule would have said
C4_Witness ==
    /\ pc = "done"
    /\ req.mode \in ExplicitModes
    /\ RuleBasedIntent(req.query) \notin {req.mode, None}
    /\ intent = req.mode

\* C6: under mode auto or an unrecognised mode the model-based classifier is
\* invoked only if the rule-based step is undetermined (the query is blank);
\* a query with a table keyword and no image keyword resolves to table
\* without a model call.
C6_ModelOnlyWhenUndetermined ==
    (req.mode \notin ExplicitModes /\ pc \notin {"idle", "intent"}) =>
        /\ Called("classify_query_intent") => Blank(req.query)
        /\ (pc = "classify") => Blank(req.query)
        /\ (HasTableKeyword(req.query) /\ ~HasImageKeyword(req.query)) =>
                /\ intent = "table"
                /\ ~Called("classify_query_intent")
                /\ ~Called("llm.ainvoke:intent")

\* a table query answered under an unrecognised mode, and no intent call made
C6_Witness ==
    /\ pc = "done"
    /\ req.mode = "hybrid"
    /\ HasTableKeyword(req.query) /\ ~HasImageKeyword(req.query)
    /\ intent = "table"
    /\ Called("search_similar")

\* the filter answer_question is to ask for, given the intent and doc_ids
ExpectedSourceCond(i) ==
    InCond("source", CASE i = "text" -> <<"text">>
                       [] i = "table" -> <<"table">>
                       [] i = "both" -> <<"text", "table">>)

ExpectedFilter(i, doc_ids) ==
    IF Truthy(doc_ids)
    THEN AndFilter(<<InCond("doc_id", doc_ids.v), ExpectedSourceCond(i)>>)
    ELSE ExpectedSourceCond(i)

\* C7: the source filter follows the resolved intent (text -> [text],
\* table -> [table], both -> [text, table]); with the caller's doc_ids and
\* top_k it is the only retrieval request of the call, so no call retrieves
\* without a source filter or with one that admits image chunks.
C7_SourceFilterFromIntent ==
    /\ Cardinality(SearchEvents) <= 1
    /\ pc \in {"generate", "done"} => Cardinality(SearchEvents) = 1
    /\ \A i \in SearchEvents :
        /\ intent \in Intents
        /\ events[i].requests =
              <<SimilarityRequest(req.query, req.top_k,
                                  ExpectedFilter(intent, req.doc_ids))>>
    /\ \A i \in 1..Len(docs) :
        DictGet(docs[i].metadata, "source") \in
            {PyStr(src) : src \in Range(ExpectedSourceCond(intent).values)}

\* intent both, retrieved from an index that holds image chunks: a text and
\* a table chunk came back
C7_Witness ==
    /\ pc = "done"
    /\ intent = "both"
    /\ \E e \in index : e.metadata["source"] = PyStr("image")
    /\ \E i, j \in 1..Len(docs) :
          /\ docs[i].metadata["source"] = PyStr("text")
          /\ docs[j].metadata["source"] = PyStr("table")

-----------------------------------------------------------------------------
(* Properties of _rule_based_intent *)

\* C5: on the lowercased, trimmed query: a table keyword and no image
\* keyword => table; an image keyword and no table keyword => both; both
\* kinds => both; neither and non-empty => text; empty => undetermined.
C5_RuleBasedMapping ==
    ruleOut # Unset =>
        LET q == Strip(Lower(ruleIn))
            t == \E kw \in table_keywords : Contains(q, kw)
            i == \E kw \in image_keywords : Contains(q, kw)
        IN  /\ (t /\ ~i) => ruleOut = "table"
            /\ (i /\ ~t) => ruleOut = "both"
            /\ (t /\ i) => ruleOut = "both"
            /\ (~t /\ ~i /\ q # <<>>) => ruleOut = "text"
            /\ (q = <<>>) => ruleOut = None

\* an image-only query in capitals, padded with white space, gave both
C5_Witness ==
    /\ ruleOut = "both"
    /\ ruleIn # Strip(Lower(ruleIn))
    /\ Head(ruleIn) \in WHITESPACE
    /\ \E kw \in image_keywords : Contains(Strip(Lower(ruleIn)), kw)
    /\ ~\E kw \in table_keywords : Contains(Strip(Lower(ruleIn)), kw)

-----------------------------------------------------------------------------
(* Properties of the vector store *)

\* C8: search_similar issues exactly one similarity call per invocation:
\* unfiltered with neither doc_ids nor sources, filtered by the single in-set
\* predicate with exactly one of them non-empty, and by one AND-combination of
\* the two predicates with both (never two separately filtered calls).
C8_OneCallComposedFilter ==
    storeOp.name = "search_similar" =>
        /\ Len(storeOp.requests) = 1
        /\ storeOp.requests[1].k = storeOp.k
        /\ LET f == storeOp.requests[1].filter
               d == Truthy(storeOp.doc_ids)
               s == Truthy(storeOp.sources)
           IN  /\ (~d /\ ~s) => f = FilterNone
               /\ (d /\ ~s) => f = InCond("doc_id", storeOp.doc_ids.v)
               /\ (~d /\ s) => f = InCond("source", storeOp.sources.v)
               /\ (d /\ s) => f = AndFilter(<<InCond("doc_id", storeOp.doc_ids.v),
                                             InCond("source", storeOp.sources.v)>>)
        /\ \A i \in 1..Len(storeOp.docs) :
            /\ Truthy(storeOp.doc_ids) =>
                    \E j \in 1..Len(storeOp.doc_ids.v) :
                        storeOp.docs[i].metadata["doc_id"] = PyStr(storeOp.doc_ids.v[j])
            /\ Truthy(storeOp.sources) =>
                    \E j \in 1..Len(storeOp.sources.v) :
                        storeOp.docs[i].metadata["source"] = PyStr(storeOp.sources.v[j])

\* doc_ids and sources both given, one call, and the table of the one
\* document came back although the index holds more
C8_Witness ==
    /\ storeOp.name = "search_similar"
    /\ storeOp.doc_ids = PyList(<<"doc_002">>)
    /\ storeOp.sources = PyList(<<"table">>)
    /\ Len(storeOp.requests) = 1
    /\ storeOp.k = 2
    /\ Len(storeOp.docs) = 1
    /\ Cardinality(index) > 3

\* the entries the chunks stored most recently stand for
GivenEntries == {IndexEntry(given[id]) : id \in DOMAIN given}

\* C9: index_chunks upserts: the index holds at most one entry per chunk id,
\* the entry carries the content and metadata of the most recent call that
\* contained the id, indexing a chunk list twice leaves the index as
\* indexing it once does, and an empty list leaves the index unchanged.
C9_UpsertSemantics ==
    /\ \A e1, e2 \in index : e1.id = e2.id => e1 = e2
    /\ index = GivenEntries
    /\ \A bundles \in DocLists :
        LET chunks == AllChunks(bundles)
            once == IndexChunks(index, chunks, "ok").index
        IN  IndexChunks(once, chunks, "ok").index = once
    /\ \A backend \in BackendOutcomes : IndexChunks(index, <<>>, backend).index = index

\* a run stored chunks over entries that differed, next to entries of the
\* other document
C9_Witness ==
    /\ storeOp.name = "ingest_doc"
    /\ storeOp.replaced
    /\ storeOp.stored > 1
    /\ Cardinality(index) > storeOp.stored

\* every process has left index_chunks
AllFinished ==
    /\ procs # NoProcs
    /\ \A p \in Procs : procs[p].pc \in {"done", "failed"}

\* the entries of the index that carry the doc_id
EntriesOf(doc_id) == {e \in index : e.metadata["doc_id"] = PyStr(doc_id)}

\* C10: two documents with different doc_ids indexed concurrently, the
\* upsert of one id being atomic: under every interleaving the final index
\* holds every chunk of both documents, none overwritten by a chunk of the
\* other.
C10_ConcurrentIngestion ==
    AllFinished =>
        \A p \in Procs :
            LET bundle == procs[p].bundle
                mine == DocChunks(bundle).chunks
            IN  procs[p].pc = "done" =>
                  /\ \A i \in 1..Len(mine) : IndexEntry(mine[i]) \in index
                  /\ Cardinality(EntriesOf(bundle.metadata.doc_id)) = Len(mine)

\* both documents are in, with the same block ids, one doc id being a prefix
\* of the other
C10_Witness ==
    /\ AllFinished
    /\ \A p \in Procs : procs[p].pc = "done" /\ Len(procs[p].chunks) >= 2
    /\ procs[1].bundle.metadata.doc_id = "doc_001"
    /\ procs[2].bundle.metadata.doc_id = "doc_001::text"
    /\ \A p \in Procs : procs[p].chunks[1].source = "text"
    /\ procs[1].chunks[1].metadata.block_id = procs[2].chunks[1].metadata.block_id
    /\ Cardinality(index) = Len(procs[1].chunks) + Len(procs[2].chunks)

-----------------------------------------------------------------------------
(* Properties of the chunker *)

Chunked == ret.step = "chunk"

SOURCE_KINDS == {"text", "table", "image"}

\* every chunk the three chunkers returned for the corpus
CorpusChunks ==
    UNION {Range(ret.docs[b][k].chunks) : b \in DOMAIN ret.docs, k \in SOURCE_KINDS}

\* the id of the block a chunk was made from, as its metadata records it
BlockOf(c) ==
    CASE c.source = "text" -> c.metadata.block_id.v
      [] c.source = "table" -> c.metadata.table_id.v
      [] c.source = "image" -> c.metadata.image_id.v

\* C11: every chunk id is doc_id + "::" + source kind + "::" + block id, and
\* chunk ids are unique over the corpus: two chunks made from blocks that
\* differ in doc_id, source kind or block id never have the same id, also
\* when the documents use the same block ids.
C11_ChunkIdsGloballyUnique ==
    Chunked =>
        /\ \A c \in CorpusChunks :
              c.id = c.doc_id \o "::" \o c.source \o "::" \o BlockOf(c)
        /\ \A c1 \in CorpusChunks, c2 \in CorpusChunks :
              <<c1.doc_id, c1.source, BlockOf(c1)>> # <<c2.doc_id, c2.source, BlockOf(c2)>>
                  => c1.id # c2.id
        /\ \A b \in DOMAIN ret.docs, k \in SOURCE_KINDS :
              LET chunks == ret.docs[b][k].chunks
              IN  /\ \A i \in DOMAIN chunks :
                        /\ chunks[i].doc_id = work.bundles[b].metadata.doc_id
                        /\ chunks[i].source = k
                  /\ \A i \in DOMAIN chunks, j \in DOMAIN chunks :
                        i # j => chunks[i].id # chunks[j].id

\* both documents chunked, with the same block ids, the id of one document
\* extending the id of the other by "::text"
C11_Witness ==
    /\ Chunked
    /\ work.bundles[2].metadata.doc_id = "doc_001::text"
    /\ \A b \in {1, 2} : Len(ret.docs[b]["text"].chunks) >= 1
    /\ \A b \in {1, 2} : Len(ret.docs[b]["table"].chunks) >= 2
    /\ BlockOf(ret.docs[1]["text"].chunks[1]) = BlockOf(ret.docs[2]["text"].chunks[1])

-----------------------------------------------------------------------------
(* Properties of the extractors *)

\* no two positions of a block list hold the same id
DistinctIds(blocks) ==
    \A i \in DOMAIN blocks, j \in DOMAIN blocks : i # j => blocks[i].id # blocks[j].id

\* C12: within one extracted document the ids of the text blocks are pairwise
\* distinct over all pages, the ids of the table blocks are pairwise distinct
\* and the ids of the image blocks are pairwise distinct: the counters never
\* restart per page or per detection strategy.
C12_BlockIdsDistinct ==
    ret.step = "extract" =>
        /\ DistinctIds(ret.texts) /\ DistinctIds(ret.tables) /\ DistinctIds(ret.images)
        /\ \A i \in DOMAIN ret.texts : ret.texts[i].id = BlockId("txt", i)
        /\ \A i \in DOMAIN ret.tables : ret.tables[i].id = BlockId("tbl", i)
        /\ \A i \in DOMAIN ret.images : ret.images[i].id = BlockId("img", i)

\* the extraction is over: text blocks and images on two pages, tables found
\* by the second flavor
C12_Witness ==
    /\ ret.step = "extract" /\ work.phase = "done"
    /\ \E i \in DOMAIN ret.texts, j \in DOMAIN ret.texts :
          ret.texts[i].page = 1 /\ ret.texts[j].page = 2
    /\ \E i \in DOMAIN ret.images, j \in DOMAIN ret.images :
          ret.images[i].page = 1 /\ ret.images[j].page = 2
    /\ Len(ret.tables) >= 2 /\ ret.tables[1].flavor = "stream"

\* extract_tables has returned
TablesExtracted == ret.step = "extract" /\ work.phase \in {"extract_images", "done"}

\* C26: extract_tables tries the detection strategies in priority order; a
\* strategy that raises or finds no table is passed over; the tables returned
\* are all the tables of the first strategy that found at least one, and no
\* later strategy is tried; when no strategy finds a table the list is empty.
C26_FirstYieldingStrategy ==
    TablesExtracted =>
        LET tried == work.tried
            last == tried[Len(tried)]
        IN  /\ tried # <<>> /\ Len(tried) <= Len(flavor_priority)
            /\ \A k \in DOMAIN tried : tried[k].flavor = flavor_priority[k]
            /\ \A k \in 1..(Len(tried) - 1) : tried[k].raised \/ tried[k].n = 0
            /\ IF ~last.raised /\ last.n >= 1
               THEN /\ Len(ret.tables) = last.n
                    /\ \A i \in DOMAIN ret.tables : ret.tables[i].flavor = last.flavor
               ELSE /\ Len(tried) = Len(flavor_priority)
                    /\ ret.tables = <<>>

\* the first strategy found two tables and the second was not tried
C26_Witness ==
    /\ TablesExtracted
    /\ Len(work.tried) = 1 /\ work.tried[1].flavor = "lattice" /\ work.tried[1].n = 2
    /\ Len(ret.tables) = 2 /\ ret.tables[2].flavor = "lattice"

\* the blocks of a list that pass a chunker's filter, in order
NonEmptyTexts(bundle) ==
    LET keep(item) == item.content # "" IN SelectSeq(bundle.texts, keep)

Captioned(bundle) ==
    LET keep(item) == item.caption.t = "str" /\ item.caption.v # ""
    IN  SelectSeq(bundle.images, keep)

\* one chunk per text block with content, per table and per captioned image,
\* in order, the content being the text, or the caption
OnePerBlock(bundle, out) ==
    /\ Len(out.text.chunks) = Len(NonEmptyTexts(bundle))
    /\ \A i \in DOMAIN out.text.chunks :
          /\ out.text.chunks[i].content = NonEmptyTexts(bundle)[i].content
          /\ BlockOf(out.text.chunks[i]) = NonEmptyTexts(bundle)[i].id
    /\ Len(out.table.chunks) = Len(bundle.tables)
    /\ \A i \in DOMAIN out.table.chunks :
          BlockOf(out.table.chunks[i]) = bundle.tables[i].id
    /\ Len(out.image.chunks) = Len(Captioned(bundle))
    /\ \A i \in DOMAIN out.image.chunks :
          /\ out.image.chunks[i].content = Captioned(bundle)[i].caption.v
          /\ BlockOf(out.image.chunks[i]) = Captioned(bundle)[i].id

\* C13: for every loaded bundle the chunker succeeds and yields exactly one
\* chunk per text block with non-empty content (content = the text), one per
\* table and one per image with a non-empty caption (content = the caption);
\* empty text blocks and images without a caption yield no chunk.
C13_ChunkerSucceedsOnePerBlock ==
    Chunked =>
        \A b \in DOMAIN ret.docs :
            /\ \A k \in SOURCE_KINDS : ~ret.docs[b][k].raised
            /\ OnePerBlock(work.bundles[b], ret.docs[b])

\* what does hold: a chunker raises only for a block whose doc_type the
\* loader left at None, and the chunkers that return give one chunk per block
C13_OnePerBlockWhenTyped ==
    Chunked =>
        \A b \in DOMAIN ret.docs :
            LET bundle == work.bundles[b]
                out == ret.docs[b]
            IN  /\ out.text.raised <=>
                      bundle.metadata.doc_type = PyNone /\ NonEmptyTexts(bundle) # <<>>
                /\ out.table.raised <=>
                      bundle.metadata.doc_type = PyNone /\ bundle.tables # <<>>
                /\ out.image.raised <=>
                      bundle.metadata.doc_type = PyNone /\ Captioned(bundle) # <<>>
                /\ (\A k \in SOURCE_KINDS : ~out[k].raised) => OnePerBlock(bundle, out)

\* the lines of rows from..to of a table, each row pipe-joined, one per line
RECURSIVE RowLines(_, _, _)
RowLines(rows, from, to) ==
    IF from > to THEN ""
    ELSE JoinStr(" | ", rows[from])
         \o (IF from < to THEN "\n" ELSE "")
         \o RowLines(rows, from + 1, to)

\* C14: the rendered content of a table chunk holds the table's first
\* min(n, 10) rows in their original order and no other row, for a table of
\* any number n of rows.
C14_AtMostTenRowsRendered ==
    ret.step = "render" =>
        LET table == work.table
            n == Len(table.rows)
            shown == IF n < 10 THEN n ELSE 10
        IN  ret.text = "Table " \o PyToStr(table.name) \o " (page "
                       \o ToString(table.page) \o ")\nColumns: "
                       \o JoinStr(" | ", table.columns)
                       \o "\nRows:\n" \o RowLines(table.rows, 1, shown)

\* a table longer than the cap was rendered
C14_Witness ==
    /\ ret.step = "render"
    /\ Len(work.table.rows) > 10
    /\ ret.text # "Table transaction_table (page 1)\nColumns: date | amount\nRows:\n"

\* C15 as stated: the metadata map of every chunk the chunker produces
\* includes doc_id, doc_type, the source kind and page, for text, table and
\* image chunks alike.
C15_MetadataMapHasProvenance ==
    Chunked =>
        \A c \in CorpusChunks :
            /\ {"doc_id", "doc_type", "page"} \subseteq DOMAIN c.metadata
            /\ \E k \in {"source", "source_kind"} : k \in DOMAIN c.metadata

\* C15 amended: every chunk the chunker produces carries doc_id, doc_type,
\* source kind and page as fields of the chunk, for text, table and image
\* chunks alike; its metadata map includes page and doc_type, with the same
\* values, and has no doc_id and no source kind.
C15_ProvenanceOnChunk ==
    Chunked =>
        \A b \in DOMAIN ret.docs, k \in SOURCE_KINDS :
            \A i \in DOMAIN ret.docs[b][k].chunks :
                LET c == ret.docs[b][k].chunks[i]
                IN  /\ c.doc_id = work.bundles[b].metadata.doc_id
                    /\ PyStr(c.doc_type) = work.bundles[b].metadata.doc_type
                    /\ c.source = k
                    /\ c.page.t = "int"
                    /\ {"doc_type", "page"} \subseteq DOMAIN c.metadata
                    /\ c.metadata.page = c.page
                    /\ c.metadata.doc_type = PyStr(c.doc_type)
                    /\ DOMAIN c.metadata \cap {"doc_id", "source", "source_kind"} = {}

\* a document gave chunks of all three kinds
C15_Witness ==
    /\ Chunked
    /\ \E b \in DOMAIN ret.docs :
          \A k \in SOURCE_KINDS : ret.docs[b][k].chunks # <<>>

-----------------------------------------------------------------------------
(* Properties of index_chunks on arbitrary chunks *)

SCALAR_TYPES == {"str", "int", "float", "bool", "NoneType"}

OWN_KEYS == {"doc_id", "doc_type", "source", "page", "chunk_id"}

\* C16: every metadata value index_chunks stores is a primitive scalar
\* (string, number, boolean or null), a non-scalar value being stored as its
\* string; and every stored entry's metadata has chunk_id equal to the
\* chunk's id and doc_id, doc_type, source and page equal to the chunk's own
\* fields, whatever keys the chunk's metadata map held.
C16_StoredMetadataScalarAndOwn ==
    (storeOp.name = "index_chunks" /\ ~storeOp.raised) =>
        /\ \A e \in index : \A k \in DOMAIN e.metadata : e.metadata[k].t \in SCALAR_TYPES
        /\ \A id \in ChunkIds(storeOp.chunks) :
              LET c == LastWithId(storeOp.chunks, id)
              IN  \E e \in index :
                    /\ e.id = c.id
                    /\ e.metadata.chunk_id = PyStr(c.id)
                    /\ e.metadata.doc_id = PyStr(c.doc_id)
                    /\ e.metadata.doc_type = PyStr(c.doc_type)
                    /\ e.metadata.source = PyStr(c.source)
                    /\ e.metadata.page = c.page
                    /\ DOMAIN e.metadata = DOMAIN c.metadata \cup OWN_KEYS
                    /\ \A k \in DOMAIN c.metadata \ OWN_KEYS :
                          e.metadata[k] = IF c.metadata[k].t \in SCALAR_TYPES
                                          THEN c.metadata[k]
                                          ELSE PyStr(PyToStr(c.metadata[k]))

\* chunks were stored whose metadata clashed with the keys index_chunks sets
\* and held a nested list
C16_Witness ==
    /\ storeOp.name = "index_chunks" /\ ~storeOp.raised
    /\ \E i \in DOMAIN storeOp.chunks :
          /\ "chunk_id" \in DOMAIN storeOp.chunks[i].metadata
          /\ storeOp.chunks[i].page # PyNone
    /\ \E e \in index :
          /\ "columns" \in DOMAIN e.metadata
          /\ e.metadata.columns = PyStr("['date', [1, None]]")


(***************************************************************************)
(* Properties of the document classifier                                   *)
(***************************************************************************)

Classified == ret.step = "classify"

CandidateTypes == {CANDIDATE_TYPES[i] : i \in DOMAIN CANDIDATE_TYPES}

\* the text the model answered, stripped and lower-cased
AnswerOf(text) == Lower(Strip(IF text.t = "str" THEN text.v ELSE <<>>))

\* the answer is one of the labels, or holds the words of one
MatchesALabel(answer) ==
    \/ \E t \in CandidateTypes : answer = LABEL_CHARS[t]
    \/ Contains(answer, KW.bank) /\ Contains(answer, KW.statement)
    \/ Contains(answer, KW.invoice)
    \/ Contains(answer, KW.receipt)
    \/ Contains(answer, KW.purchase)

\* the model-assisted classification failed: no credentials, no usable model,
\* a call raised, or the response is empty or matches no label
ModelFailed ==
    /\ Classified /\ work.use_gemini
    /\ \/ ret.outcome # "reply"
       \/ AnswerOf(ret.answer) = <<>>
       \/ ~MatchesALabel(AnswerOf(ret.answer))

\* C17: whenever the model-assisted classifier fails in any way (no
\* credentials, no usable model, the call raises, the response is empty or
\* matches no label), classify_document(doc, use_gemini=True) returns the
\* label the rule-based classifier returns for the document, and does not raise.
C17_FailureFallsBackToRuleBased ==
    ModelFailed =>
        /\ ~ret.raised
        /\ ret.label = ClassifyDocumentRuleBased(work.doc)

\* the part of C17 the code keeps: no credentials, no usable model or a
\* raising call give the rule-based label
C17_RaisingFailuresFallBack ==
    (Classified /\ work.use_gemini /\ ret.outcome # "reply") =>
        /\ ~ret.raised
        /\ ret.label = ClassifyDocumentRuleBased(work.doc)

\* C18: classify_document returns a member of CANDIDATE_TYPES for every
\* document, for both values of use_gemini and every response text of the
\* model; with use_gemini=False the model is never called.
C18_LabelIsCandidateType ==
    Classified =>
        /\ ~ret.raised
        /\ ret.label \in CandidateTypes
        /\ ~work.use_gemini => ret.calls = <<>>

\* the model answered a text that matches no label, and a label came back
C18_Witness ==
    /\ Classified /\ work.use_gemini
    /\ ret.outcome = "reply" /\ ret.answer.t = "str"
    /\ AnswerOf(ret.answer) # <<>>
    /\ ~MatchesALabel(AnswerOf(ret.answer))
    /\ ret.label = "generic"
    /\ "model.generate_content" \in {ret.calls[i] : i \in DOMAIN ret.calls}


(***************************************************************************)
(* Properties of the cleaner                                               *)
(***************************************************************************)

Cleaned == ret.step = "clean"

\* the cleaning ran on blocks that an earlier run of it had returned
CleanedAgain == Cleaned /\ work.passes >= 2

\* what cleaning may change of a block: its content, or header and cells
ContentOf(b) ==
    IF ret.kind = "text" THEN [id |-> b.id, content |-> b.content]
    ELSE [id |-> b.id, header |-> b.header, rows |-> b.rows]

\* C19: cleaning is idempotent: clean_text_blocks (clean_table_blocks) applied
\* to its own output drops no further block, row or column and changes no
\* text content, header cell or table cell.
C19_CleaningIdempotent ==
    CleanedAgain =>
        /\ Len(ret.output) = Len(ret.input)
        /\ \A i \in DOMAIN ret.input : ContentOf(ret.output[i]) = ContentOf(ret.input[i])

\* a second cleaning has run on text blocks the first one changed and on a
\* table whose first cleaning dropped a column and a row
C19_Witness ==
    /\ CleanedAgain
    /\ \/ /\ ret.kind = "text"
          /\ Len(ret.input) >= 1
          /\ ret.input[1].extra.cleaning.removed_chars > 0
          /\ \E i \in DOMAIN ret.input[1].content : ret.input[1].content[i] = " "
       \/ /\ ret.kind = "table"
          /\ ret.input[1].extra.cleaning.cleaned_row_count
                < ret.input[1].extra.cleaning.original_row_count
          /\ ret.input[1].extra.cleaning.cleaned_header_len
                < ret.input[1].extra.cleaning.original_header_len
          /\ ret.input[1].rows # <<>>

\* the columns of a cleaned table that are blank in the header and every row
BlankColumns(tb) ==
    {c \in 1..Len(tb.header.v) :
        /\ StripSpace(tb.header.v[c]) = <<>>
        /\ \A r \in DOMAIN tb.rows :
              c <= Len(tb.rows[r]) => StripSpace(tb.rows[r][c]) = <<>>}

\* C20: after clean_table_blocks every remaining row of every table has the
\* length of the table's header, reached by padding (nothing is truncated),
\* and a column blank in the header and in every row is removed from both.
C20_RowsMatchHeader ==
    (Cleaned /\ ret.kind = "table") =>
        \A i \in DOMAIN ret.output :
            LET tb == ret.output[i]
            IN  /\ \A r \in DOMAIN tb.rows : Len(tb.rows[r]) = Len(tb.header.v)
                /\ BlankColumns(tb) = {}

\* the part of C20 the code keeps: a table that had rows and a header of at
\* least one cell assigned before cleaning comes out with rows of the
\* header's length and without a column that is blank throughout
C20_RowsMatchAssignedHeader ==
    (Cleaned /\ ret.kind = "table") =>
        \A i \in DOMAIN ret.output :
            LET tb == ret.output[i]
            IN  (GetAttrHeader(ret.input[i]) # <<>> /\ ret.input[i].rows # <<>>) =>
                    /\ \A r \in DOMAIN tb.rows : Len(tb.rows[r]) = Len(tb.header.v)
                    /\ BlankColumns(tb) = {}

(***************************************************************************)
(* Properties of the answer generation                                     *)
(***************************************************************************)

\* the generation call of answer_question was made and the model failed:
\* the client could not be built, or ainvoke raised
GenerationFailed == ret.step = "generate" /\ ret.outcome # "reply"

\* C24: when retrieval returned at least one item and the answer-generation
\* call of the model fails, answer_question surfaces the failure to its caller
\* as an error; it never returns a substitute answer, and in particular never
\* the no-results answer.
C24_GenerationFailureSurfaces ==
    GenerationFailed =>
        /\ docs # <<>>
        /\ pc = "raised"
        /\ result.kind = "raise" /\ result.at = "generate"
        /\ result.error \in {"LLMClientError", "LLMCallError"}

\* two items were retrieved, the model was invoked and the call raised
C24_Witness ==
    /\ GenerationFailed /\ ret.outcome = "call_error"
    /\ Len(docs) >= 2
    /\ events[Len(events)].call = "llm.ainvoke:answer"
    /\ result.kind = "raise"
(***************************************************************************)
(* Properties of the semantic enrichment                                   *)
(***************************************************************************)

\* normalize_tables has returned
Normalized == ret.step = "normalize_tables"

\* the canonical names of the synonyms a cleaned header cell holds
CanonicalsIn(h) ==
    {HEADER_NORMALIZATION_MAP[k].canonical :
        k \in {i \in DOMAIN HEADER_NORMALIZATION_MAP :
                  Contains(h, HEADER_NORMALIZATION_MAP[i].key)}}

\* `out` is the header `raw` normalized as C21 says: cell for cell, a cell that
\* holds a synonym under its canonical name, any other lowercased and trimmed
NormalizedAs(raw, out) ==
    /\ Len(out) = Len(raw)
    /\ \A j \in DOMAIN raw :
          LET h == Lower(Strip(raw[j]))
          IN  IF h # <<>> /\ CanonicalsIn(h) # {}
              THEN out[j] \in CanonicalsIn(h)
              ELSE out[j] = h
    /\ raw = << <<"D", "a", "t", "e">>,
                <<"D", "e", "s", "c", "r", "i", "p", "t", "i", "o", "n">>,
                <<"D", "e", "b", "i", "t">>,
                <<"B", "a", "l", "a", "n", "c", "e">> >>
         => out = << <<"d", "a", "t", "e">>,
                     <<"d", "e", "s", "c", "r", "i", "p", "t", "i", "o", "n">>,
                     <<"a", "m", "o", "u", "n", "t", "_", "o", "u", "t">>,
                     <<"b", "a", "l", "a", "n", "c", "e">> >>

\* C21: normalize_tables maps each cell of a table's header row (columns),
\* case-insensitively, to the canonical name of the synonym it holds and
\* passes any other cell through lowercased and trimmed, keeping order and
\* count; [Date, Description, Debit, Balance] becomes [date, description,
\* amount_out, balance]; the original and the normalized header are both kept
\* in extra["header_normalization"].
C21_HeaderNormalization ==
    (Normalized /\ work.passes = 1) =>
        \A i \in DOMAIN ret.output :
            LET tb == ret.output[i]
                raw == ret.input[i].columns
            IN  /\ NormalizedAs(raw, tb.header.v)
                /\ tb.extra.header_normalization.original_header = raw
                /\ tb.extra.header_normalization.normalized_header = tb.header.v

\* the part of C21 the code keeps: the header that was assigned to the table
\* as its `header` attribute is normalized and kept
C21_AssignedHeaderNormalization ==
    (Normalized /\ work.passes = 1) =>
        \A i \in DOMAIN ret.output :
            LET tb == ret.output[i]
                raw == GetAttrHeader(ret.input[i])
            IN  /\ NormalizedAs(raw, tb.header.v)
                /\ tb.extra.header_normalization.original_header = raw
                /\ tb.extra.header_normalization.normalized_header = tb.header.v

\* a table with the header attribute assigned as [Date, Description, Debit,
\* Balance] was normalized
C21_AssignedWitness ==
    /\ Normalized /\ work.passes = 1
    /\ ret.input[1].header.t = "list"
    /\ Len(ret.input[1].header.v) = 4
    /\ ret.output[1].header.v[3] = <<"a", "m", "o", "u", "n", "t", "_", "o", "u", "t">>

\* C28: normalize_tables is idempotent: every canonical name is mapped to
\* itself, so normalizing an already normalized table leaves its header as it
\* was.
C28_NormalizationIdempotent ==
    (Normalized /\ work.passes >= 2) =>
        \A i \in DOMAIN ret.output :
            ret.output[i].header.v = GetAttrHeader(ret.input[i])

\* the canonical names that _normalize_header_name maps to themselves are
\* kept by a second pass
C28_StableNamesKept ==
    (Normalized /\ work.passes >= 2) =>
        \A i \in DOMAIN ret.output :
            \A j \in DOMAIN ret.output[i].header.v :
                LET before == GetAttrHeader(ret.input[i])[j]
                IN  before \notin { <<"a", "m", "o", "u", "n", "t", "_", "i", "n">>,
                                    <<"a", "m", "o", "u", "n", "t", "_", "o", "u", "t">> }
                        => ret.output[i].header.v[j] = before

\* tag_sections has returned
Tagged == ret.step = "tag_sections"

\* the label of the i-th text block after tag_sections
SectionOf(i) == ret.output[i].extra.section

\* the model path of tag_sections was taken and the model answered
ModelAnswered == Tagged /\ ret.use_gemini /\ ret.outcome.kind = "reply"

\* C27: after tag_sections every text block carries exactly one section label,
\* from {header, summary, transactions, footer, other}. When the model
\* answered, a block whose index is in the parsed response has the model's
\* label and every other block its rule-based label; when the model path is
\* not taken or the call fails, every block has its rule-based label.
C27_SectionLabels ==
    Tagged =>
        /\ Len(ret.output) = Len(ret.input)
        /\ \A i \in DOMAIN ret.output :
              LET hits == {m \in SectionMapping(ret.outcome.text) : m.idx = i - 1}
              IN  /\ SectionOf(i) \in Range(SECTION_LABELS)
                  /\ (ModelAnswered /\ hits # {}) =>
                        \A m \in hits : SectionOf(i) = m.label
                  /\ (ModelAnswered /\ hits = {}) =>
                        SectionOf(i) = GuessSectionRule(ret.input[i])
                  /\ ~ModelAnswered =>
                        SectionOf(i) = GuessSectionRule(ret.input[i])

\* the model labelled the first of two blocks only: the first has the
\* model's label, which the rule would not give, and the second its rule label
C27_Witness ==
    /\ ModelAnswered
    /\ Len(ret.output) = 2
    /\ ret.outcome.text = [t |-> "str", v |-> <<"0", ":", " ", "h", "e", "a", "d", "e", "r">>]
    /\ SectionOf(1) = <<"h", "e", "a", "d", "e", "r">>
    /\ SectionOf(2) = <<"s", "u", "m", "m", "a", "r", "y">>

(***************************************************************************)
(* Properties of the index over re-ingestion                               *)
(***************************************************************************)

\* one step of the index: every id stays, and an entry is replaced only when
\* the call gave a chunk under its id
IndexStepAdditive ==
    \A e \in index :
        /\ \E x \in index' : x.id = e.id
        /\ e \notin index' =>
              /\ e.id \in DOMAIN given'
              /\ given'[e.id] # given[e.id]

\* C29: index_chunks is additive: it never removes an entry and never changes
\* an entry whose id is not among the ids of the chunks it was given, so every
\* chunk id ever indexed is still present, also the ids of blocks that a later
\* ingestion of the same document no longer produces.
C29_IndexAdditive ==
    /\ [](\A id \in DOMAIN given : \E e \in index : e.id = id)
    /\ [][IndexStepAdditive]_vars

\* only one document was ever indexed, and its last ingestion stored fewer
\* chunks than the index holds entries of it
C29_Witness ==
    /\ storeOp.name = "ingest_doc" /\ ~storeOp.raised /\ storeOp.stored >= 1
    /\ \A e1, e2 \in index : e1.metadata["doc_id"] = e2.metadata["doc_id"]
    /\ Cardinality(index) > storeOp.stored

(***************************************************************************)
(* Properties of the validation and of the pipeline                        *)
(***************************************************************************)

\* validate_all has been called
Validated == ret.step = "validate_all"

\* how many issues of the call are the given one
IssueCount(code, context) ==
    Cardinality({k \in DOMAIN ret.issues :
                    ret.issues[k].code = code /\ ret.issues[k].context = context})

\* C22: validate_all is pure: for every document it returns its issue list
\* without raising and leaves metadata, text blocks, tables and images as they
\* were before the call.
C22_ValidateAllPure ==
    Validated =>
        /\ ~ret.raised
        /\ ret.after = ret.before

\* a document with issues of all three validators was validated
C22_Witness ==
    /\ Validated
    /\ \E k \in DOMAIN ret.issues : ret.issues[k].code = "MISSING_DOC_ID"
    /\ \E k \in DOMAIN ret.issues : ret.issues[k].code = "ROW_LEN_MISMATCH"
    /\ \E k \in DOMAIN ret.issues : ret.issues[k].code = "IMAGE_NO_PATH"
    /\ Len(ret.before.tables) = 2

\* the table issues of the call are those C23 tells, headers[i] being the
\* header row of the i-th table
TableIssuesAsClaimed(headers) ==
    \A i \in DOMAIN ret.before.tables :
        LET tb == ret.before.tables[i]
            header == headers[i]
        IN  /\ \A r \in DOMAIN tb.rows :
                  IssueCount("ROW_LEN_MISMATCH",
                             [table_index |-> i - 1, row_index |-> r - 1])
                    = IF Len(tb.rows[r]) # Len(header) THEN 1 ELSE 0
            /\ IssueCount("TABLE_NO_HEADER", [table_index |-> i - 1])
                  = IF header = <<>> /\ tb.rows # <<>> THEN 1 ELSE 0
            /\ IssueCount("TABLE_NO_ROWS", [table_index |-> i - 1])
                  = IF header # <<>> /\ tb.rows = <<>> THEN 1 ELSE 0

\* C23: for every table validate_all emits one ROW_LEN_MISMATCH warning for
\* each row whose length differs from the length of the table's header row
\* (columns) and none for a row of that length, and a missing-header or
\* missing-rows warning exactly when the table has rows but no header, or a
\* header but no rows.
C23_TableIssues ==
    Validated =>
        TableIssuesAsClaimed([i \in DOMAIN ret.before.tables |->
                                ret.before.tables[i].columns])

\* the part of C23 the code keeps: the issues are those of the claim for the
\* header that was assigned to the table as its `header` attribute, a table
\* without the attribute counting as one with an empty header
C23_AssignedHeaderIssues ==
    Validated =>
        TableIssuesAsClaimed([i \in DOMAIN ret.before.tables |->
                                GetAttrHeader(ret.before.tables[i])])

\* a table with an assigned header of two cells, a row of two and a row of
\* three cells was validated
C23_AssignedWitness ==
    /\ Validated
    /\ \E i \in DOMAIN ret.before.tables :
          LET tb == ret.before.tables[i]
          IN  /\ Len(GetAttrHeader(tb)) = 2 /\ Len(tb.rows) = 2
              /\ IssueCount("ROW_LEN_MISMATCH",
                            [table_index |-> i - 1, row_index |-> 1]) = 1

\* C30: validate_all emits no IMAGE_NO_PATH warning for an image block whose
\* file_path is not empty; every image block of extract_images passes.
C30_ImageWithFilePathPasses ==
    Validated =>
        \A i \in DOMAIN ret.before.images :
            ret.before.images[i].file_path # "" =>
                IssueCount("IMAGE_NO_PATH", [image_index |-> i - 1]) = 0

\* the part of C30 the code keeps: an image that carries an image_path or a
\* ref attribute with a value passes, any other image gets one warning
C30_ImageWithImagePathPasses ==
    Validated =>
        \A i \in DOMAIN ret.before.images :
            LET im == ret.before.images[i]
                Has(attr) == attr.t = "str" /\ attr.v # ""
            IN  IssueCount("IMAGE_NO_PATH", [image_index |-> i - 1])
                  = IF Has(im.image_path) \/ Has(im.ref) THEN 0 ELSE 1

\* the stage was run, and where in the order of the run
Ran(stage) == \E k \in DOMAIN work.log : work.log[k] = stage
PositionOf(stage) == CHOOSE k \in DOMAIN work.log : work.log[k] = stage

\* C25: the stages of run_all run in the order extraction, classification,
\* cleaning, enrichment, validation: validate_all runs on the cleaned and
\* enriched document, and validation.json holds its issues, never on the
\* document as extracted.
C25_ValidationAfterEnrichment ==
    (work.step = "validate" /\ work.mode = "run_all" /\ Ran("validate_all")) =>
        /\ Ran("run_cleaning") /\ Ran("run_semantic_enrich")
        /\ PositionOf("run_cleaning") < PositionOf("run_semantic_enrich")
        /\ PositionOf("run_semantic_enrich") < PositionOf("validate_all")
        /\ ret.before.cleaned /\ ret.before.enriched

\* what the code keeps of C25: the stages run one after the other in a fixed
\* order, the text is parsed before the document is classified, and cleaning
\* comes before enrichment
C25_FixedOrder ==
    (work.step = "validate" /\ work.mode = "run_all") =>
        /\ \A j, k \in DOMAIN work.log : j # k => work.log[j] # work.log[k]
        /\ Ran("classify_document") => PositionOf("parse_pdf") < PositionOf("classify_document")
        /\ Ran("validate_all") =>
              /\ PositionOf("extract_images") < PositionOf("validate_all")
              /\ PositionOf("extract_tables") < PositionOf("validate_all")
        /\ Ran("run_semantic_enrich") =>
              PositionOf("run_cleaning") < PositionOf("run_semantic_enrich")

\* a run of run_all went through all its stages
C25_RunWitness ==
    /\ work.step = "validate" /\ work.mode = "run_all"
    /\ Ran("run_semantic_enrich") /\ ~work.raised
    /\ work.doc.cleaned /\ work.doc.enriched
    /\ ~ret.before.cleaned

====
